---- MODULE Spec2Model ----
(***************************************************************************)
(* State-machine model of the Maelstrom node runtime (MaelstromService):   *)
(* wire decoding, the per-message context, the handler registry and its    *)
(* dispatch, the node initialisation handshake and the outbound sender;    *)
(* and of the process main() runs, a MaelstromServer around the echo       *)
(* handler.  Spec is the service, SpecPeers the service with a fan-out     *)
(* handler, SpecUnit the sender and the context on their own, SpecMain     *)
(* the read loop of main(), SpecPayloads the context's sending operations  *)
(* over payloads of every serialized form, SpecErrors its error reports,   *)
(* SpecCodec the decoding and encoding of envelopes, SpecDrain the         *)
(* service's buffer across inputs and outputs, SpecServer the              *)
(* MaelstromServer's handle around any handler.                            *)
(*                                                                         *)
(* Conventions.  Option<T> is a sequence of length at most one (None is    *)
(* <<>>, Some(x) is <<x>>).  A serde_json::Value is a tagged tuple.  A      *)
(* DynamicMap is a function from key strings to values.  Rust's 0-based    *)
(* handler indices are 1-based here.  format!() is string concatenation;   *)
(* a backquote in a message text is written as an apostrophe.              *)
(***************************************************************************)
EXTENDS Integers, Sequences, FiniteSets, TLC

\* handler, sender, node: the fields of MaelstromService.  server, running:
\* the MaelstromServer of main() and whether its read loop is still alive.
\* last_stamped, obs: history of the last operation, read by the properties.
VARIABLES handler, sender, node, server, running, last_stamped, obs

vars == <<handler, sender, node, server, running, last_stamped, obs>>

\* ---------------------------------------------------------------- bounds
\* Input is accepted only while fewer than MaxQueue envelopes are buffered.
MaxQueue == 1
\* At most MaxHandlers handler instances are registered.
MaxHandlers == 2
\* main() reads lines while its server's last_msg_id is below MaxMsgId.
MaxMsgId == 5

\* ------------------------------------------------------- Option and JSON
None == <<>>
Some(x) == <<x>>
IsSome(o) == Len(o) = 1
Unwrap(o) == o[1]

JNull == <<"null">>
JStr(s) == <<"str", s>>
JNum(n) == <<"num", n>>
JArr(a) == <<"arr", a>>
JObj(m) == <<"obj", m>>
IsStr(v) == v[1] = "str"
IsNum(v) == v[1] = "num"
IsArr(v) == v[1] = "arr"

EmptyMap == [k \in {} |-> JNull]
Without(m, keys) == [k \in (DOMAIN m) \ keys |-> m[k]]

\* ----------------------------------------------------------------- errors
ErrorKinds ==
  {"Timeout", "NodeNotFound", "NotSupported", "TemporarilyUnavailable",
   "MalformedRequest", "Crash", "Abort", "KeyDoesNotExist",
   "KeyAlreadyExists", "PreconditionFailed", "TxnConflict"}

\* Variant: Abort shares the code of Crash.
ErrorCode_abort_as_crash(kind) ==
  CASE kind = "Timeout" -> 0
    [] kind = "NodeNotFound" -> 1
    [] kind = "NotSupported" -> 10
    [] kind = "TemporarilyUnavailable" -> 11
    [] kind = "MalformedRequest" -> 12
    [] kind = "Crash" -> 13
    [] kind = "Abort" -> 13
    [] kind = "KeyDoesNotExist" -> 20
    [] kind = "KeyAlreadyExists" -> 21
    [] kind = "PreconditionFailed" -> 22
    [] kind = "TxnConflict" -> 30

ErrorCode(kind) ==
  CASE kind = "Timeout" -> 0
    [] kind = "NodeNotFound" -> 1
    [] kind = "NotSupported" -> 10
    [] kind = "TemporarilyUnavailable" -> 11
    [] kind = "MalformedRequest" -> 12
    [] kind = "Crash" -> 13
    [] kind = "Abort" -> 14
    [] kind = "KeyDoesNotExist" -> 20
    [] kind = "KeyAlreadyExists" -> 21
    [] kind = "PreconditionFailed" -> 22
    [] kind = "TxnConflict" -> 30

ErrorMessageNew(kind, text) ==
  [code |-> ErrorCode(kind), text |-> text, source |-> None]

with_source(e, src) == [e EXCEPT !.source = Some(src)]

\* Result<(), ErrorMessage> and Result<T, ErrorMessage>
Ok == [ok |-> TRUE, err |-> None]
Err(e) == [ok |-> FALSE, err |-> Some(e)]
OkVal(v) == [ok |-> TRUE, val |-> v, err |-> None]
ErrVal(e) == [ok |-> FALSE, val |-> None, err |-> Some(e)]

\* ------------------------------------------------------------- envelopes
Message(src, dest, msg_id, in_reply_to, kind, data) ==
  [src |-> src, dest |-> dest,
   body |-> [msg_id |-> msg_id, in_reply_to |-> in_reply_to,
             content |-> [kind |-> kind, data |-> data]]]

MessageKind(m) == m.body.content.kind

ReservedBodyKeys == {"msg_id", "in_reply_to", "type"}

\* Message::deserialize on one input line.  A line is either not JSON at
\* all, or a JSON object {src?, dest?, body}; the body is one flat object
\* from which msg_id, in_reply_to and type are taken and whose remaining
\* keys become the dynamic payload (serde flatten).  An Option field that
\* is absent or null is None.
OptionalNum(body, k) ==
  IF k \in DOMAIN body /\ IsNum(body[k]) THEN Some(body[k][2]) ELSE None

MessageDeserialize(line) ==
  IF line.syntax # "json"
    THEN ErrVal("expected value at line 1 column 1")
  ELSE IF "type" \notin DOMAIN line.body \/ ~IsStr(line.body["type"])
    THEN ErrVal("missing field 'type'")
  ELSE IF /\ "msg_id" \in DOMAIN line.body
          /\ ~IsNum(line.body["msg_id"]) /\ line.body["msg_id"] # JNull
    THEN ErrVal("invalid type: expected usize")
  ELSE IF /\ "in_reply_to" \in DOMAIN line.body
          /\ ~IsNum(line.body["in_reply_to"]) /\ line.body["in_reply_to"] # JNull
    THEN ErrVal("invalid type: expected usize")
  ELSE OkVal(Message(
         line.src, line.dest,
         OptionalNum(line.body, "msg_id"), OptionalNum(line.body, "in_reply_to"),
         line.body["type"][2],
         Without(line.body, ReservedBodyKeys)))

\* Message::serialize: src and dest as they are (None is null), and one flat
\* body object: msg_id and in_reply_to (null when None), type, and every
\* payload key next to them.
OptionValue(o) == IF IsSome(o) THEN JNum(Unwrap(o)) ELSE JNull

\* Variant: the body carries the three named fields only.
MessageSerialize_named_only(m) ==
  [syntax |-> "json", src |-> m.src, dest |-> m.dest,
   body |-> ("msg_id" :> OptionValue(m.body.msg_id))
              @@ ("in_reply_to" :> OptionValue(m.body.in_reply_to))
              @@ ("type" :> JStr(m.body.content.kind))]

MessageSerialize(m) ==
  [syntax |-> "json", src |-> m.src, dest |-> m.dest,
   body |-> ("msg_id" :> OptionValue(m.body.msg_id))
              @@ ("in_reply_to" :> OptionValue(m.body.in_reply_to))
              @@ ("type" :> JStr(m.body.content.kind))
              @@ m.body.content.data]

\* ------------------------------------------------- typed payloads (serde)
\* T::deserialize(Value::Object(data)) for the payload shapes of the crate.
ShapeMatches(T, data) ==
  CASE T = "InitMessage" ->
         /\ "node_id" \in DOMAIN data /\ IsStr(data["node_id"])
         /\ "node_ids" \in DOMAIN data /\ IsArr(data["node_ids"])
    [] T = "EchoMessageContent" ->
         "echo" \in DOMAIN data /\ IsStr(data["echo"])
    [] T = "DynamicMap" -> TRUE

ShapeDecode(T, data) ==
  CASE T = "InitMessage" ->
         [node_id |-> data["node_id"][2], node_ids |-> data["node_ids"][2]]
    [] T = "EchoMessageContent" -> [echo |-> data["echo"][2]]
    [] T = "DynamicMap" -> data

\* Variant: a payload of the wrong shape is reported as an internal failure.
deserialize_message_content_crash(msg, T) ==
  IF ShapeMatches(T, msg.body.content.data)
    THEN OkVal(ShapeDecode(T, msg.body.content.data))
    ELSE ErrVal(with_source(
           ErrorMessageNew("Crash",
                           "failed to deserialize message '" \o MessageKind(msg) \o "'"),
           "serde"))

deserialize_message_content(msg, T) ==
  IF ShapeMatches(T, msg.body.content.data)
    THEN OkVal(ShapeDecode(T, msg.body.content.data))
    ELSE ErrVal(with_source(
           ErrorMessageNew("MalformedRequest",
                           "failed to deserialize message '" \o MessageKind(msg) \o "'"),
           "serde"))

\* serde_json::to_value(data) for the values handed to reply/broadcast/
\* fan_out: a typed value is a tuple <<type name, fields...>>.
ToValue(data) ==
  CASE data[1] = "InitOkMessage" -> JNull
    [] data[1] = "ErrorMessage" ->
         JObj(("code" :> JNum(data[2].code)) @@ ("text" :> JStr(data[2].text)))
    [] data[1] = "EchoMessageContent" -> JObj("echo" :> JStr(data[2]))
    [] data[1] = "TestResponseMessage1" -> JObj("foo" :> JStr(data[2]))
    [] data[1] = "TestResponseMessage2" -> JObj("bar" :> JStr(data[2]))
    [] data[1] = "GenerateIdOkMessageContent" -> JObj("id" :> JStr(data[2]))
    [] data[1] = "String" -> JStr(data[2])
    [] data[1] = "DynamicMap" -> JObj(data[2])

\* Variant: only an object is accepted, a null value is refused.
serialize_message_content_object_only(data) ==
  LET value == ToValue(data) IN
  CASE value[1] = "obj" -> OkVal(value[2])
    [] OTHER -> ErrVal(ErrorMessageNew("Crash",
                         "message content must serialize to an object"))

serialize_message_content(data) ==
  LET value == ToValue(data) IN
  CASE value[1] = "null" -> OkVal(EmptyMap)
    [] value[1] = "obj" -> OkVal(value[2])
    [] OTHER -> ErrVal(ErrorMessageNew("Crash",
                         "message content must serialize to an object"))

\* ------------------------------------------ MaelstromServerMessageSender
SenderNew == [node_ids |-> <<>>, outgoing_msgs |-> <<>>]

\* Variant: msg_ids are numbered from the buffer length, starting at 0.
sender_send_from_zero(s, kind, data, dest, in_reply_to) ==
  [s EXCEPT !.outgoing_msgs =
     Append(@, Message(None, dest, Some(Len(s.outgoing_msgs)), in_reply_to, kind, data))]

\* send: the id is the buffer length plus one; src is left unset.
sender_send(s, kind, data, dest, in_reply_to) ==
  LET msg_id == Some(Len(s.outgoing_msgs) + 1) IN
  [s EXCEPT !.outgoing_msgs =
     Append(@, Message(None, dest, msg_id, in_reply_to, kind, data))]

RECURSIVE SendEach(_, _, _, _)
SendEach(s, kind, data, dests) ==
  IF dests = <<>> THEN s
  ELSE SendEach(sender_send(s, kind, data, Some(Head(dests)), None),
                kind, data, Tail(dests))

\* Variant: one envelope without destination instead of one per peer.
sender_fan_out_unaddressed(s, kind, data) == sender_send(s, kind, data, None, None)

sender_fan_out(s, kind, data) == SendEach(s, kind, data, s.node_ids)

\* Variant: the newest envelope is taken instead of the oldest.
sender_pop_back(s) ==
  IF s.outgoing_msgs = <<>>
    THEN [msg |-> None, sender |-> s]
    ELSE [msg |-> Some(s.outgoing_msgs[Len(s.outgoing_msgs)]),
          sender |-> [s EXCEPT !.outgoing_msgs = SubSeq(@, 1, Len(@) - 1)]]

sender_pop(s) ==
  IF s.outgoing_msgs = <<>>
    THEN [msg |-> None, sender |-> s]
    ELSE [msg |-> Some(Head(s.outgoing_msgs)),
          sender |-> [s EXCEPT !.outgoing_msgs = Tail(@)]]

set_node_ids(s, node_ids) == [s EXCEPT !.node_ids = node_ids]

\* --------------------------------------------------------- MessageContext
\* The context borrows the sender; its operations take the sender's state
\* and give back the result together with the sender's new state.
ContextEmpty == [msg |-> None, node_ids |-> <<>>]
with_message(ctx, msg) == [ctx EXCEPT !.msg = Some(msg)]
with_node_ids(ctx, node_ids) == [ctx EXCEPT !.node_ids = node_ids]

message_kind(ctx) == IF IsSome(ctx.msg) THEN MessageKind(Unwrap(ctx.msg)) ELSE ""
message_src(ctx) == IF IsSome(ctx.msg) THEN Unwrap(ctx.msg).src ELSE None
message_id(ctx) == IF IsSome(ctx.msg) THEN Unwrap(ctx.msg).body.msg_id ELSE None

\* Variant: a context without a message is reported as a malformed request.
message_content_malformed(ctx, T) ==
  IF IsSome(ctx.msg)
    THEN deserialize_message_content(Unwrap(ctx.msg), T)
    ELSE ErrVal(ErrorMessageNew("MalformedRequest", "message not available"))

message_content(ctx, T) ==
  IF IsSome(ctx.msg)
    THEN deserialize_message_content(Unwrap(ctx.msg), T)
    ELSE ErrVal(ErrorMessageNew("Crash", "message not available"))

\* send, given the outcome `ser` of serialize_message_content(data): `?`
\* returns its error, otherwise the map goes to the sender.
SendSerialized(ser, s, kind, dest, in_reply_to) ==
  IF ser.ok
    THEN [res |-> Ok, sender |-> sender_send(s, kind, ser.val, dest, in_reply_to)]
    ELSE [res |-> Err(Unwrap(ser.err)), sender |-> s]

\* Variant: a payload that does not serialize is sent as an empty mapping.
ctx_send_empty_on_failure(ctx, s, kind, data, dest, in_reply_to) ==
  LET ser == serialize_message_content(data) IN
  [res |-> IF ser.ok THEN Ok ELSE Err(Unwrap(ser.err)),
   sender |-> sender_send(s, kind, IF ser.ok THEN ser.val ELSE EmptyMap,
                          dest, in_reply_to)]

ctx_send(ctx, s, kind, data, dest, in_reply_to) ==
  SendSerialized(serialize_message_content(data), s, kind, dest, in_reply_to)

\* Variant: the reply goes to the inbound message's dest instead of its src.
ctx_reply_to_dest(ctx, s, kind, data) ==
  ctx_send(ctx, s, kind, data,
           IF IsSome(ctx.msg) THEN Unwrap(ctx.msg).dest ELSE None, message_id(ctx))

ctx_reply(ctx, s, kind, data) ==
  ctx_send(ctx, s, kind, data, message_src(ctx), message_id(ctx))

\* Variant: the error is announced without destination or correlation.
ctx_error_unaddressed(ctx, s, error) ==
  ctx_send(ctx, s, "error", <<"ErrorMessage", error>>, None, None)

\* Variant: the attached cause is sent along with the code and the text.
ctx_error_with_cause(ctx, s, error) ==
  ctx_reply(ctx, s, "error",
            <<"DynamicMap",
              IF IsSome(error.source)
                THEN ("code" :> JNum(error.code)) @@ ("text" :> JStr(error.text))
                       @@ ("source" :> JStr(Unwrap(error.source)))
                ELSE ("code" :> JNum(error.code)) @@ ("text" :> JStr(error.text))>>)

ctx_error(ctx, s, error) == ctx_reply(ctx, s, "error", <<"ErrorMessage", error>>)

\* Variant: the announcement is sent once to every peer.
ctx_broadcast_per_peer(ctx, s, kind, data) ==
  LET ser == serialize_message_content(data) IN
  IF ser.ok
    THEN [res |-> Ok, sender |-> sender_fan_out(s, kind, ser.val)]
    ELSE [res |-> Err(Unwrap(ser.err)), sender |-> s]

ctx_broadcast(ctx, s, kind, data) == ctx_send(ctx, s, kind, data, None, None)

ctx_fan_out(ctx, s, kind, data) ==
  LET ser == serialize_message_content(data) IN
  IF ser.ok
    THEN [res |-> Ok, sender |-> sender_fan_out(s, kind, ser.val)]
    ELSE [res |-> Err(Unwrap(ser.err)), sender |-> s]

\* ------------------------------------------------------- MessageReceiver
\* A handler that ends with a context operation returns that operation's
\* result; `r` is the operation's outcome, `h` the handler's own state.
Returning(r, h) == [res |-> r.res, sender |-> r.sender, h |-> h]

\* The handler types of the crate: the echo and id-generation handlers and
\* the succeeding and failing handlers of the registry's tests.
HandlerTypes ==
  {"EchoMessageHandler", "GenerateIdMessageHandler",
   "SuccessHandler1", "SuccessHandler2", "FailureHandler1", "FailureHandler2"}

get_handled_messages(T) ==
  CASE T = "EchoMessageHandler" -> <<"echo">>
    [] T = "GenerateIdMessageHandler" -> <<"generate", "init">>
    [] T = "FanOutHandler" -> <<"gossip">>
    [] OTHER -> <<"test">>

receiver_new(T) == [type |-> T, node_id |-> None]

\* digits.parse::<usize>() on the node id without its first character.
ParseNodeDigits(node_id) ==
  CASE node_id = "n1" -> Some("1")
    [] node_id = "n2" -> Some("2")
    [] node_id = "n3" -> Some("3")
    [] OTHER -> None

\* EchoMessageHandler::handle, given the outcome `c` of message_content.
EchoReply(c, h, ctx, s) ==
  IF ~c.ok THEN [res |-> Err(Unwrap(c.err)), sender |-> s, h |-> h]
  ELSE Returning(ctx_reply(ctx, s, "echo", <<"EchoMessageContent", c.val.echo>>), h)

echo_handle(h, ctx, s) ==
  EchoReply(message_content(ctx, "EchoMessageContent"), h, ctx, s)

handle_init(h, ctx, s) ==
  LET c == message_content(ctx, "InitMessage") IN
  IF ~c.ok THEN [res |-> Err(Unwrap(c.err)), sender |-> s, h |-> h]
  ELSE IF ParseNodeDigits(c.val.node_id) = None
    THEN [res |-> Err(with_source(
                    ErrorMessageNew("MalformedRequest",
                      "failed to parse node id '" \o c.val.node_id \o "'"),
                    "parse")),
          sender |-> s, h |-> h]
  ELSE [res |-> Ok, sender |-> s,
        h |-> [h EXCEPT !.node_id = ParseNodeDigits(c.val.node_id)]]

handle_generate_id(h, ctx, s) ==
  IF IsSome(h.node_id)
    THEN Returning(ctx_reply(ctx, s, "generate_ok",
                     <<"GenerateIdOkMessageContent", "uuid-" \o Unwrap(h.node_id)>>),
                   h)
    ELSE [res |-> Err(ErrorMessageNew("TemporarilyUnavailable", "node not initialized")),
          sender |-> s, h |-> h]

generate_id_handle(h, ctx, s) ==
  CASE message_kind(ctx) = "init" -> handle_init(h, ctx, s)
    [] message_kind(ctx) = "generate" -> handle_generate_id(h, ctx, s)
    [] OTHER ->
         [res |-> Err(ErrorMessageNew("NotSupported",
                    "message type " \o message_kind(ctx) \o " not supported")),
          sender |-> s, h |-> h]

success1_handle(h, ctx, s) ==
  Returning(ctx_reply(ctx, s, "hello", <<"TestResponseMessage1", "there">>), h)

success2_handle(h, ctx, s) ==
  Returning(ctx_reply(ctx, s, "hi", <<"TestResponseMessage2", "wassup">>), h)

failure1_handle(h, ctx, s) ==
  [res |-> Err(ErrorMessageNew("Crash", "hello there")), sender |-> s, h |-> h]

failure2_handle(h, ctx, s) ==
  [res |-> Err(ErrorMessageNew("Crash", "hi there")), sender |-> s, h |-> h]

\* A receiver written against the MessageReceiver trait whose handle()
\* passes the request on to the peers with the context's fan_out.
fan_out_handle(h, ctx, s) ==
  Returning(ctx_fan_out(ctx, s, "gossip", <<"TestResponseMessage1", "there">>), h)

\* handlers[idx].handle(ctx): dynamic dispatch on the instance's type.
receiver_handle(h, ctx, s) ==
  CASE h.type = "EchoMessageHandler" -> echo_handle(h, ctx, s)
    [] h.type = "GenerateIdMessageHandler" -> generate_id_handle(h, ctx, s)
    [] h.type = "SuccessHandler1" -> success1_handle(h, ctx, s)
    [] h.type = "SuccessHandler2" -> success2_handle(h, ctx, s)
    [] h.type = "FailureHandler1" -> failure1_handle(h, ctx, s)
    [] h.type = "FailureHandler2" -> failure2_handle(h, ctx, s)
    [] h.type = "FanOutHandler" -> fan_out_handle(h, ctx, s)

\* ---------------------------------------- MaelstromServerMessageHandler
HandlerNew == [msg_handlers |-> [k \in {} |-> <<>>], handlers |-> <<>>]

RECURSIVE AddMsgTypes(_, _, _)
AddMsgTypes(msg_handlers, msg_types, handle_idx) ==
  IF msg_types = <<>> THEN msg_handlers
  ELSE LET k == Head(msg_types)
           next == IF k \in DOMAIN msg_handlers
                     THEN [msg_handlers EXCEPT ![k] = Append(@, handle_idx)]
                     ELSE (k :> <<handle_idx>>) @@ msg_handlers
       IN AddMsgTypes(next, Tail(msg_types), handle_idx)

\* Variant: the new handler's index is put in front of the indices a kind
\* already has.
register_handler_first(hd, T) ==
  LET handle_idx == Len(hd.handlers) + 1
      kinds == {get_handled_messages(T)[i] : i \in 1..Len(get_handled_messages(T))} IN
  [msg_handlers |->
     [k \in DOMAIN hd.msg_handlers \cup kinds |->
        IF k \in kinds
          THEN <<handle_idx>> \o (IF k \in DOMAIN hd.msg_handlers
                                    THEN hd.msg_handlers[k] ELSE <<>>)
          ELSE hd.msg_handlers[k]],
   handlers |-> Append(hd.handlers, receiver_new(T))]

register_handler(hd, T) ==
  LET handle_idx == Len(hd.handlers) + 1 IN
  [msg_handlers |-> AddMsgTypes(hd.msg_handlers, get_handled_messages(T), handle_idx),
   handlers |-> Append(hd.handlers, receiver_new(T))]

\* The loop over the handler indices of one kind; `invoked` records the
\* indices whose handle() was called, in call order.
RECURSIVE RunHandlers(_, _, _, _, _)
\* Variant: a failing handler does not end the loop; the error of the last
\* failing handler is the one returned.
AfterHandle_continue(r, idx, rest, handlers, ctx, invoked) ==
  IF rest = <<>>
    THEN [res |-> r.res, sender |-> r.sender,
          handlers |-> [handlers EXCEPT ![idx] = r.h],
          invoked |-> Append(invoked, idx)]
    ELSE RunHandlers(rest, [handlers EXCEPT ![idx] = r.h], ctx, r.sender,
                     Append(invoked, idx))

\* After one handler call with outcome r: `?` returns on an error,
\* otherwise the loop goes on with the remaining indices.
AfterHandle(r, idx, rest, handlers, ctx, invoked) ==
  IF r.res.ok
    THEN RunHandlers(rest, [handlers EXCEPT ![idx] = r.h], ctx, r.sender,
                     Append(invoked, idx))
    ELSE [res |-> r.res, sender |-> r.sender,
          handlers |-> [handlers EXCEPT ![idx] = r.h],
          invoked |-> Append(invoked, idx)]

RunHandlers(handler_idxs, handlers, ctx, s, invoked) ==
  IF handler_idxs = <<>>
    THEN [res |-> Ok, sender |-> s, handlers |-> handlers, invoked |-> invoked]
    ELSE AfterHandle(receiver_handle(handlers[Head(handler_idxs)], ctx, s),
                     Head(handler_idxs), Tail(handler_idxs), handlers, ctx, invoked)

Reverse(q) == [i \in 1..Len(q) |-> q[Len(q) + 1 - i]]

\* Variant: the handlers of a kind run latest-registered first.
handle_message_reversed(hd, ctx, s) ==
  LET kind == message_kind(ctx) IN
  IF kind \in DOMAIN hd.msg_handlers
    THEN RunHandlers(Reverse(hd.msg_handlers[kind]), hd.handlers, ctx, s, <<>>)
    ELSE [res |-> Err(ErrorMessageNew("NotSupported",
                    "message type " \o kind \o " not supported")),
          sender |-> s, handlers |-> hd.handlers, invoked |-> <<>>]

\* Variant: a kind without handlers is accepted silently.
handle_message_ignore_unknown(hd, ctx, s) ==
  LET kind == message_kind(ctx) IN
  IF kind \in DOMAIN hd.msg_handlers
    THEN RunHandlers(hd.msg_handlers[kind], hd.handlers, ctx, s, <<>>)
    ELSE [res |-> Ok, sender |-> s, handlers |-> hd.handlers, invoked |-> <<>>]

handle_message(hd, ctx, s) ==
  LET kind == message_kind(ctx) IN
  IF kind \in DOMAIN hd.msg_handlers
    THEN RunHandlers(hd.msg_handlers[kind], hd.handlers, ctx, s, <<>>)
    ELSE [res |-> Err(ErrorMessageNew("NotSupported",
                    "message type " \o kind \o " not supported")),
          sender |-> s, handlers |-> hd.handlers, invoked |-> <<>>]

\* ---------------------------------------------------- MaelstromServerNode
\* Variant: init_ok is sent before the payload is decoded.
node_create_ack_first(ctx, s) ==
  LET b == ctx_broadcast(ctx, s, "init_ok", <<"InitOkMessage">>)
      init_msg == message_content(ctx, "InitMessage") IN
  IF ~init_msg.ok THEN [res |-> ErrVal(Unwrap(init_msg.err)), sender |-> b.sender]
  ELSE [res |-> OkVal([node_id |-> Some(init_msg.val.node_id),
                       node_ids |-> init_msg.val.node_ids]),
        sender |-> b.sender]

node_create(ctx, s) ==
  LET init_msg == message_content(ctx, "InitMessage") IN
  IF ~init_msg.ok THEN [res |-> ErrVal(Unwrap(init_msg.err)), sender |-> s]
  ELSE LET b == ctx_broadcast(ctx, s, "init_ok", <<"InitOkMessage">>) IN
       IF ~b.res.ok THEN [res |-> ErrVal(Unwrap(b.res.err)), sender |-> b.sender]
       ELSE [res |-> OkVal([node_id |-> Some(init_msg.val.node_id),
                            node_ids |-> init_msg.val.node_ids]),
             sender |-> b.sender]

\* ------------------------------------------------------- MaelstromService
\* handle: "init" goes to the node, any other kind to the registry once the
\* node exists.  Gives back the context, the result and the service's fields.
\* (`c` is the outcome of MaelstromServerNode::create, `d` of handle_message.)
\* Variant: only the first init is stored; a later one is acknowledged but
\* leaves the node as it was.
HandleInit_keep_first(svc, ctx, c) ==
  [ctx |-> ctx,
   res |-> IF c.res.ok THEN Ok ELSE Err(Unwrap(c.res.err)),
   handler |-> svc.handler, sender |-> c.sender,
   node |-> IF c.res.ok /\ ~IsSome(svc.node) THEN Some(c.res.val) ELSE svc.node,
   invoked |-> <<>>]

\* Variant: a failed init clears the node.
HandleInit_reset_on_error(svc, ctx, c) ==
  [ctx |-> ctx,
   res |-> IF c.res.ok THEN Ok ELSE Err(Unwrap(c.res.err)),
   handler |-> svc.handler, sender |-> c.sender,
   node |-> IF c.res.ok THEN Some(c.res.val) ELSE None,
   invoked |-> <<>>]

\* Variant: a successful init is acknowledged but the node is not stored.
HandleInit_no_store(svc, ctx, c) ==
  [ctx |-> ctx,
   res |-> IF c.res.ok THEN Ok ELSE Err(Unwrap(c.res.err)),
   handler |-> svc.handler, sender |-> c.sender,
   node |-> svc.node,
   invoked |-> <<>>]

HandleInit(svc, ctx, c) ==
  [ctx |-> ctx,
   res |-> IF c.res.ok THEN Ok ELSE Err(Unwrap(c.res.err)),
   handler |-> svc.handler, sender |-> c.sender,
   node |-> IF c.res.ok THEN Some(c.res.val) ELSE svc.node,
   invoked |-> <<>>]

HandleOther(svc, ctx, d) ==
  [ctx |-> ctx, res |-> d.res,
   handler |-> [svc.handler EXCEPT !.handlers = d.handlers],
   sender |-> d.sender, node |-> svc.node, invoked |-> d.invoked]

\* Variant: no initialisation gate; a message that is not "init" always goes
\* to the registry.
service_handle_ungated(svc, msg) ==
  LET ctx == with_message(ContextEmpty, msg) IN
  IF message_kind(ctx) = "init"
    THEN HandleInit(svc, ctx, node_create(ctx, svc.sender))
    ELSE HandleOther(svc, ctx, handle_message(svc.handler, ctx, svc.sender))

\* Variant: once the node exists, "init" is also passed on to the handlers
\* registered for it.
service_handle_init_to_registry(svc, msg) ==
  LET ctx == with_message(ContextEmpty, msg) IN
  IF message_kind(ctx) = "init" /\ ~IsSome(svc.node)
    THEN HandleInit(svc, ctx, node_create(ctx, svc.sender))
  ELSE IF IsSome(svc.node)
    THEN HandleOther(svc, with_node_ids(ctx, Unwrap(svc.node).node_ids),
           handle_message(svc.handler,
                          with_node_ids(ctx, Unwrap(svc.node).node_ids), svc.sender))
  ELSE [ctx |-> ctx,
        res |-> Err(ErrorMessageNew("PreconditionFailed",
                  "node is not initialized before handling message type "
                    \o message_kind(ctx))),
        handler |-> svc.handler, sender |-> svc.sender, node |-> svc.node,
        invoked |-> <<>>]

service_handle(svc, msg) ==
  LET ctx == with_message(ContextEmpty, msg) IN
  IF message_kind(ctx) = "init"
    THEN HandleInit(svc, ctx, node_create(ctx, svc.sender))
  ELSE IF IsSome(svc.node)
    THEN HandleOther(svc, with_node_ids(ctx, Unwrap(svc.node).node_ids),
           handle_message(svc.handler,
                          with_node_ids(ctx, Unwrap(svc.node).node_ids), svc.sender))
  ELSE [ctx |-> ctx,
        res |-> Err(ErrorMessageNew("PreconditionFailed",
                  "node is not initialized before handling message type "
                    \o message_kind(ctx))),
        handler |-> svc.handler, sender |-> svc.sender, node |-> svc.node,
        invoked |-> <<>>]

\* The tail of input: an error result becomes an "error" reply through the
\* same context; the outcome of that reply is ignored.
\* Variant: on an error the envelopes buffered so far are dropped before
\* the error reply is sent.
ReplyOnError_drop_buffered(h) ==
  [handler |-> h.handler,
   sender |-> IF h.res.ok THEN h.sender
              ELSE ctx_error(h.ctx, [h.sender EXCEPT !.outgoing_msgs = <<>>],
                             Unwrap(h.res.err)).sender,
   node |-> h.node, res |-> h.res, invoked |-> h.invoked, msg |-> h.ctx.msg]

ReplyOnError(h) ==
  [handler |-> h.handler,
   sender |-> IF h.res.ok THEN h.sender
              ELSE ctx_error(h.ctx, h.sender, Unwrap(h.res.err)).sender,
   node |-> h.node, res |-> h.res, invoked |-> h.invoked, msg |-> h.ctx.msg]

\* Variant: a line that does not decode is dropped without a report.
service_input_drop_undecodable(svc, line) ==
  LET message == MessageDeserialize(line) IN
  ReplyOnError(
    IF message.ok
      THEN service_handle(svc, message.val)
      ELSE [ctx |-> ContextEmpty, res |-> Ok,
            handler |-> svc.handler, sender |-> svc.sender, node |-> svc.node,
            invoked |-> <<>>])

\* input: decode the line and handle it.
service_input(svc, line) ==
  LET message == MessageDeserialize(line) IN
  ReplyOnError(
    IF message.ok
      THEN service_handle(svc, message.val)
      ELSE [ctx |-> ContextEmpty,
            res |-> Err(ErrorMessageNew("MalformedRequest", Unwrap(message.err))),
            handler |-> svc.handler, sender |-> svc.sender, node |-> svc.node,
            invoked |-> <<>>])

\* Variant: the envelope is handed out as the sender built it.
service_output_unstamped(svc) ==
  LET p == sender_pop(svc.sender)
  IN [msg |-> p.msg, sender |-> p.sender]

\* output: pop the oldest buffered envelope and stamp src from the node.
service_output(svc) ==
  LET p == sender_pop(svc.sender)
      src == IF IsSome(svc.node) THEN Unwrap(svc.node).node_id ELSE None
  IN [msg |-> IF IsSome(p.msg) THEN Some([Unwrap(p.msg) EXCEPT !.src = src]) ELSE None,
      sender |-> p.sender]

\* ------------------------------------------- MaelstromServer and main()
\* The process main() runs: a MaelstromServer around the echo handler of
\* echo.rs.  Its message content is a tuple <<variant, fields...>>.
server_new == [last_msg_id |-> 1, node_id |-> None]

\* serde_json::from_str::<Message<EchoMessageContent>>: src and dest are
\* required strings; the body's content is the untagged choice of a system
\* message (init, init_ok, error) and the handler's request (echo, echo_ok),
\* each tagged by "type".
MainContentMatches(body) ==
  /\ "type" \in DOMAIN body /\ IsStr(body["type"])
  /\ CASE body["type"][2] = "init" ->
            /\ "node_id" \in DOMAIN body /\ IsStr(body["node_id"])
            /\ "node_ids" \in DOMAIN body /\ IsArr(body["node_ids"])
       [] body["type"][2] = "init_ok" -> TRUE
       [] body["type"][2] = "error" ->
            /\ "code" \in DOMAIN body /\ IsNum(body["code"])
            /\ "text" \in DOMAIN body /\ IsStr(body["text"])
       [] body["type"][2] \in {"echo", "echo_ok"} ->
            "echo" \in DOMAIN body /\ IsStr(body["echo"])
       [] OTHER -> FALSE

MainContentDecode(body) ==
  CASE body["type"][2] = "init" -> <<"Init", body["node_id"][2], body["node_ids"][2]>>
    [] body["type"][2] = "init_ok" -> <<"InitOk">>
    [] body["type"][2] = "error" -> <<"Error", body["code"][2], body["text"][2]>>
    [] body["type"][2] = "echo" -> <<"Echo", body["echo"][2]>>
    [] body["type"][2] = "echo_ok" -> <<"EchoOk", body["echo"][2]>>

MainDeserialize(line) ==
  IF line.syntax # "json"
    THEN ErrVal("expected value at line 1 column 1")
  ELSE IF ~IsSome(line.src) THEN ErrVal("missing field 'src'")
  ELSE IF ~IsSome(line.dest) THEN ErrVal("missing field 'dest'")
  ELSE IF "msg_id" \in DOMAIN line.body /\ ~IsNum(line.body["msg_id"])
    THEN ErrVal("invalid type: expected usize")
  ELSE IF "in_reply_to" \in DOMAIN line.body /\ ~IsNum(line.body["in_reply_to"])
    THEN ErrVal("invalid type: expected usize")
  ELSE IF ~MainContentMatches(line.body)
    THEN ErrVal("data did not match any variant of untagged enum MessageContent")
  ELSE OkVal([src |-> Unwrap(line.src), dest |-> Unwrap(line.dest),
              msg_id |-> IF "msg_id" \in DOMAIN line.body
                           THEN Some(line.body["msg_id"][2]) ELSE None,
              in_reply_to |-> IF "in_reply_to" \in DOMAIN line.body
                                THEN Some(line.body["in_reply_to"][2]) ELSE None,
              content |-> MainContentDecode(line.body)])

\* Variant: the envelope is stamped with the counter first, which is
\* incremented afterwards.
server_new_reply_stamp_first(srv, to, content, reply_to) ==
  [server |-> [srv EXCEPT !.last_msg_id = @ + 1],
   msg |-> [src |-> IF IsSome(srv.node_id) THEN Unwrap(srv.node_id) ELSE "",
            dest |-> to, msg_id |-> Some(srv.last_msg_id),
            in_reply_to |-> reply_to, content |-> content]]

\* new_reply: the counter is incremented first, then stamped.
server_new_reply(srv, to, content, reply_to) ==
  [server |-> [srv EXCEPT !.last_msg_id = @ + 1],
   msg |-> [src |-> IF IsSome(srv.node_id) THEN Unwrap(srv.node_id) ELSE "",
            dest |-> to, msg_id |-> Some(srv.last_msg_id + 1),
            in_reply_to |-> reply_to, content |-> content]]

server_create_error(srv, code, text) ==
  server_new_reply(srv, "", <<"Error", code, text>>, None)

\* EchoMessageHandler::handle of echo.rs: never fails.
EchoInnerHandle(content) ==
  IF content[1] = "Echo" THEN OkVal(Some(<<"EchoOk", content[2]>>)) ELSE OkVal(None)

\* MaelstromServer::handle for any MessageHandler: `init_ok` is whether the
\* handler's init returns Ok, `response` what its handle returns for the
\* content.  res is Ok(Some(reply)), Ok(None) or Err(text); inner names the
\* handler method that was called ("none" when neither was).
\* Variant: Custom messages are handed to the handler without looking at
\* the node id.
server_handle_with_unchecked(srv, msg, init_ok, response) ==
  CASE msg.content[1] = "Init" ->
         LET set == [srv EXCEPT !.node_id = Some(msg.content[2])] IN
         IF ~init_ok
           THEN [res |-> ErrVal("failed to initialize message handler"),
                 server |-> set, inner |-> "init"]
         ELSE LET r == server_new_reply(set, msg.src, <<"InitOk">>, msg.msg_id)
              IN [res |-> OkVal(Some(r.msg)), server |-> r.server, inner |-> "init"]
    [] msg.content[1] \notin {"InitOk", "Error"} ->
         IF ~response.ok
             THEN [res |-> ErrVal("downstream handler failed to handle message"),
                   server |-> srv, inner |-> "handle"]
           ELSE IF IsSome(response.val)
             THEN LET r == server_new_reply(srv, msg.src, Unwrap(response.val),
                                            msg.msg_id)
                  IN [res |-> OkVal(Some(r.msg)), server |-> r.server,
                      inner |-> "handle"]
           ELSE [res |-> OkVal(None), server |-> srv, inner |-> "handle"]
    [] OTHER -> [res |-> OkVal(None), server |-> srv, inner |-> "none"]

\* Variant: the node id is stored only once the handler's init has
\* succeeded.
server_handle_with_init_first(srv, msg, init_ok, response) ==
  CASE msg.content[1] = "Init" ->
         IF ~init_ok
           THEN [res |-> ErrVal("failed to initialize message handler"),
                 server |-> srv, inner |-> "init"]
         ELSE LET r == server_new_reply([srv EXCEPT !.node_id = Some(msg.content[2])],
                                        msg.src, <<"InitOk">>, msg.msg_id)
              IN [res |-> OkVal(Some(r.msg)), server |-> r.server, inner |-> "init"]
    [] msg.content[1] \notin {"InitOk", "Error"} ->
         IF ~IsSome(srv.node_id)
           THEN [res |-> ErrVal("node ID not set"), server |-> srv, inner |-> "none"]
         ELSE IF ~response.ok
             THEN [res |-> ErrVal("downstream handler failed to handle message"),
                   server |-> srv, inner |-> "handle"]
           ELSE IF IsSome(response.val)
             THEN LET r == server_new_reply(srv, msg.src, Unwrap(response.val),
                                            msg.msg_id)
                  IN [res |-> OkVal(Some(r.msg)), server |-> r.server,
                      inner |-> "handle"]
           ELSE [res |-> OkVal(None), server |-> srv, inner |-> "handle"]
    [] OTHER -> [res |-> OkVal(None), server |-> srv, inner |-> "none"]

server_handle_with(srv, msg, init_ok, response) ==
  CASE msg.content[1] = "Init" ->
         LET set == [srv EXCEPT !.node_id = Some(msg.content[2])] IN
         IF ~init_ok
           THEN [res |-> ErrVal("failed to initialize message handler"),
                 server |-> set, inner |-> "init"]
         ELSE LET r == server_new_reply(set, msg.src, <<"InitOk">>, msg.msg_id)
              IN [res |-> OkVal(Some(r.msg)), server |-> r.server, inner |-> "init"]
    [] msg.content[1] \notin {"InitOk", "Error"} ->
         IF ~IsSome(srv.node_id)
           THEN [res |-> ErrVal("node ID not set"), server |-> srv, inner |-> "none"]
         ELSE IF ~response.ok
             THEN [res |-> ErrVal("downstream handler failed to handle message"),
                   server |-> srv, inner |-> "handle"]
           ELSE IF IsSome(response.val)
             THEN LET r == server_new_reply(srv, msg.src, Unwrap(response.val),
                                            msg.msg_id)
                  IN [res |-> OkVal(Some(r.msg)), server |-> r.server,
                      inner |-> "handle"]
           ELSE [res |-> OkVal(None), server |-> srv, inner |-> "handle"]
    [] OTHER -> [res |-> OkVal(None), server |-> srv, inner |-> "none"]

\* Variant: an inbound init_ok or error is answered with an init_ok.
server_handle_answer_system(srv, msg) ==
  CASE msg.content[1] = "Init" ->
         LET r == server_new_reply([srv EXCEPT !.node_id = Some(msg.content[2])],
                                   msg.src, <<"InitOk">>, msg.msg_id)
         IN [res |-> OkVal(Some(r.msg)), server |-> r.server]
    [] msg.content[1] \in {"Echo", "EchoOk"} ->
         IF ~IsSome(srv.node_id)
           THEN [res |-> ErrVal("node ID not set"), server |-> srv]
         ELSE LET response == EchoInnerHandle(msg.content) IN
           IF IsSome(response.val)
             THEN LET r == server_new_reply(srv, msg.src, Unwrap(response.val),
                                            msg.msg_id)
                  IN [res |-> OkVal(Some(r.msg)), server |-> r.server]
           ELSE [res |-> OkVal(None), server |-> srv]
    [] OTHER ->
         LET r == server_new_reply(srv, msg.src, <<"InitOk">>, msg.msg_id)
         IN [res |-> OkVal(Some(r.msg)), server |-> r.server]

\* MaelstromServer::handle around the echo handler of echo.rs, whose init
\* is the trait's default and returns Ok.
server_handle(srv, msg) ==
  LET h == server_handle_with(srv, msg, TRUE, EchoInnerHandle(msg.content))
  IN [res |-> h.res, server |-> h.server]

\* One turn of main()'s loop over stdin.  `alive` is FALSE when main has
\* returned (the `?` on handle's error) or panicked (unwrap of a line that
\* could not be read); `printed` is the line written to stdout, if any.
main_loop_body(srv, line) ==
  IF line.syntax = "unreadable"
    THEN [alive |-> FALSE, failed |-> TRUE, printed |-> None, server |-> srv]
  ELSE LET deser == MainDeserialize(line) IN
    IF deser.ok
      THEN LET h == server_handle(srv, deser.val) IN
           IF h.res.ok
             THEN [alive |-> TRUE, failed |-> FALSE, printed |-> h.res.val,
                   server |-> h.server]
             ELSE [alive |-> FALSE, failed |-> TRUE, printed |-> None,
                   server |-> h.server]
      ELSE LET r == server_create_error(srv, 12,
                      "failed to deserialize input: " \o Unwrap(deser.err))
           IN [alive |-> TRUE, failed |-> TRUE, printed |-> Some(r.msg),
               server |-> r.server]

\* ------------------------------------------------------------ input lines
WireLine(src, dest, msg_id, content) ==
  [syntax |-> "json", src |-> src, dest |-> dest,
   body |-> IF IsSome(msg_id) THEN ("msg_id" :> JNum(Unwrap(msg_id))) @@ content
            ELSE content]

GarbageLine == [syntax |-> "garbage", src |-> None, dest |-> None, body |-> EmptyMap]

InitContent(node_id, node_ids) ==
  ("type" :> JStr("init")) @@ ("node_id" :> JStr(node_id))
    @@ ("node_ids" :> JArr(node_ids))

Contents ==
  {InitContent("n1", <<"n1", "n2">>),
   InitContent("n2", <<"n3", "n2">>),
   ("type" :> JStr("init")) @@ ("node_id" :> JStr("n1")),
   ("type" :> JStr("echo")) @@ ("echo" :> JStr("hello")),
   ("type" :> JStr("echo")) @@ ("echo" :> JNum(5)),
   "type" :> JStr("test"),
   "type" :> JStr("bogus"),
   "type" :> JStr("generate"),
   "echo" :> JStr("hello")}

\* Bodies also sent without src, dest and msg_id.
AnonymousContents ==
  {InitContent("n1", <<"n1", "n2">>), "type" :> JStr("test"), "type" :> JStr("bogus")}

Lines ==
  {WireLine(Some("c1"), Some("n1"), Some(7), c) : c \in Contents}
    \cup {WireLine(None, None, None, c) : c \in AnonymousContents}
    \cup {GarbageLine}

\* ------------------------------------------------------------ the machine
\* obs records the last operation: the decoded inbound message, the result
\* of handling it, the handlers invoked, the envelope output() returned and
\* what the buffer, the node and the last assigned msg_id were before it.
\* last_stamped is the msg_id of the envelope appended last (0: none yet).
Observation(op, msg, res, invoked, out) ==
  [op |-> op, msg |-> msg, res |-> res, invoked |-> invoked, out |-> out,
   pre_msgs |-> sender.outgoing_msgs, pre_node |-> node,
   pre_stamped |-> last_stamped]

Service == [handler |-> handler, sender |-> sender, node |-> node]

Init ==
  /\ handler = HandlerNew
  /\ sender = SenderNew
  /\ node = None
  /\ server = server_new
  /\ running = TRUE
  /\ last_stamped = 0
  /\ obs = [op |-> "new", msg |-> None, res |-> Ok, invoked |-> <<>>, out |-> None,
            pre_msgs |-> <<>>, pre_node |-> None, pre_stamped |-> 0]

RegisterHandler ==
  \E T \in HandlerTypes :
    /\ Len(handler.handlers) < MaxHandlers
    /\ handler' = register_handler(handler, T)
    /\ obs' = Observation("register", None, Ok, <<>>, None)
    /\ UNCHANGED <<sender, node, server, running, last_stamped>>

Input ==
  \E line \in Lines :
    /\ Len(sender.outgoing_msgs) < MaxQueue
    /\ \E r \in {service_input(Service, line)} :
       /\ handler' = r.handler
       /\ sender' = r.sender
       /\ node' = r.node
       /\ last_stamped' =
            IF Len(r.sender.outgoing_msgs) > Len(sender.outgoing_msgs)
              THEN Unwrap(r.sender.outgoing_msgs[Len(r.sender.outgoing_msgs)].body.msg_id)
              ELSE last_stamped
       /\ obs' = Observation("input", r.msg, r.res, r.invoked, None)
    /\ UNCHANGED <<server, running>>

Output ==
  \E r \in {service_output(Service)} :
  /\ sender' = r.sender
  /\ obs' = Observation("output", None, Ok, <<>>, r.msg)
  /\ UNCHANGED <<handler, node, server, running, last_stamped>>

Next == RegisterHandler \/ Input \/ Output

Spec == Init /\ [][Next]_vars

\* ------------------------------------- the service with a fan-out handler
\* The same service, with receivers that fan out among those registered and
\* with "gossip" requests among the lines.
PeerHandlerTypes == {"FanOutHandler", "SuccessHandler1", "FailureHandler1"}

PeerLines ==
  {WireLine(Some("c1"), Some("n1"), Some(7), c) :
     c \in {InitContent("n1", <<"n1", "n2">>),
            InitContent("n2", <<"n3", "n2", "n1">>),
            "type" :> JStr("gossip"),
            "type" :> JStr("test")}}
    \cup {GarbageLine}

RegisterPeerHandler ==
  \E T \in PeerHandlerTypes :
    /\ Len(handler.handlers) < MaxHandlers
    /\ handler' = register_handler(handler, T)
    /\ obs' = Observation("register", None, Ok, <<>>, None)
    /\ UNCHANGED <<sender, node, server, running, last_stamped>>

PeerInput ==
  \E line \in PeerLines :
    /\ Len(sender.outgoing_msgs) < MaxQueue
    /\ \E r \in {service_input(Service, line)} :
       /\ handler' = r.handler
       /\ sender' = r.sender
       /\ node' = r.node
       /\ last_stamped' =
            IF Len(r.sender.outgoing_msgs) > Len(sender.outgoing_msgs)
              THEN Unwrap(r.sender.outgoing_msgs[Len(r.sender.outgoing_msgs)].body.msg_id)
              ELSE last_stamped
       /\ obs' = Observation("input", r.msg, r.res, r.invoked, None)
    /\ UNCHANGED <<server, running>>

NextPeers == RegisterPeerHandler \/ PeerInput \/ Output

SpecPeers == Init /\ [][NextPeers]_vars

\* ------------------------------------------------- the machine of main()
\* The lines main() reads: the service's lines, system and echo_ok bodies,
\* and a line stdin could not hand over as text.
UnreadableLine ==
  [syntax |-> "unreadable", src |-> None, dest |-> None, body |-> EmptyMap]

MainLines ==
  Lines \cup {UnreadableLine}
    \cup {WireLine(Some("c1"), Some("n1"), Some(7), c) :
            c \in {"type" :> JStr("init_ok"),
                   ("type" :> JStr("echo_ok")) @@ ("echo" :> JStr("hello")),
                   ("type" :> JStr("error")) @@ ("code" :> JNum(13))
                     @@ ("text" :> JStr("boom"))}}

\* One line read by main(): obs keeps the line, whether handling it ended in
\* an error, what was printed and the server as it was before.
MainLine ==
  \E line \in MainLines :
    /\ running
    /\ server.last_msg_id < MaxMsgId
    /\ \E r \in {main_loop_body(server, line)} :
       /\ server' = r.server
       /\ running' = r.alive
       /\ obs' = [op |-> "line", line |-> line, failed |-> r.failed,
                  printed |-> r.printed, pre_server |-> server]
    /\ UNCHANGED <<handler, sender, node, last_stamped>>

NextMain == MainLine

SpecMain == Init /\ [][NextMain]_vars

\* ------------------------------------------- MaelstromServer on its own
\* handle applied directly, as the tests of server.rs do, around a handler
\* whose init may fail and whose handle answers like the echo handler or
\* fails.  obs keeps the message, the handler's outcomes, the result, the
\* handler method called and the server as it was before.
ServerMessages ==
  {[src |-> "c1", dest |-> "n1", msg_id |-> id, in_reply_to |-> None, content |-> c] :
     id \in {None, Some(7)},
     c \in {<<"Init", "n1", <<"n1", "n2">>>>, <<"Init", "n2", <<"n3", "n2">>>>,
            <<"Echo", "hello">>, <<"EchoOk", "hello">>, <<"InitOk">>,
            <<"Error", 13, "boom">>}}

InnerResponses(content) == {EchoInnerHandle(content), ErrVal("handler failed")}

ServerHandle ==
  \E msg \in ServerMessages, init_ok \in BOOLEAN :
    \E response \in InnerResponses(msg.content) :
      /\ server.last_msg_id < MaxMsgId
      /\ \E r \in {server_handle_with(server, msg, init_ok, response)} :
         /\ server' = r.server
         /\ obs' = [op |-> "handle", msg |-> msg, init_ok |-> init_ok,
                    response |-> response, res |-> r.res, inner |-> r.inner,
                    pre_server |-> server]
      /\ UNCHANGED <<handler, sender, node, running, last_stamped>>

NextServer == ServerHandle

SpecServer == Init /\ [][NextServer]_vars

\* ------------------------------- the sender and the context on their own
\* The operations of MaelstromServerMessageSender and MessageContext applied
\* directly, as the crate's unit tests do: peer lists are set with
\* set_node_ids, contexts are built over the sender with or without a
\* message.
PeerLists == {<<>>, <<"n1", "n2">>, <<"n3", "n2">>, <<"n1", "n2", "n3">>}

UnitKinds == {"x", "test"}

\* Payload mappings handed to the sender, and typed values handed to the
\* context (the last one does not serialize to an object).
UnitMaps == {EmptyMap, "echo" :> JStr("hello")}
UnitValues ==
  {<<"EchoMessageContent", "hello">>, <<"TestResponseMessage1", "there">>,
   <<"String", "oops">>}

\* Inbound messages: with and without src and msg_id, with payloads of the
\* shapes the handlers ask for and of other shapes.
UnitMessages ==
  {Message(Some("c1"), Some("n1"), Some(7), None, "echo", "echo" :> JStr("hello")),
   Message(Some("c1"), Some("n1"), None, None, "echo", "echo" :> JNum(5)),
   Message(None, Some("n1"), Some(7), None, "init",
           ("node_id" :> JStr("n1")) @@ ("node_ids" :> JArr(<<"n1", "n2">>))),
   Message(None, None, None, None, "test", EmptyMap)}

UnitContexts ==
  {ContextEmpty} \cup {with_message(ContextEmpty, m) : m \in UnitMessages}

UnitShapes == {"InitMessage", "EchoMessageContent", "DynamicMap"}

\* What a unit operation was applied to, what it returned and the sender
\* before it.
UnitObservation(op, ctx, kind, data, res) ==
  [op |-> op, ctx |-> ctx, kind |-> kind, data |-> data, res |-> res,
   pre_sender |-> sender]

SetNodeIds ==
  \E P \in PeerLists :
    /\ sender' = set_node_ids(sender, P)
    /\ obs' = UnitObservation("set_node_ids", ContextEmpty, "", P, Ok)
    /\ UNCHANGED <<handler, node, server, running, last_stamped>>

SenderFanOut ==
  \E kind \in UnitKinds, data \in UnitMaps :
    /\ Len(sender.outgoing_msgs) < MaxQueue
    /\ sender' = sender_fan_out(sender, kind, data)
    /\ obs' = UnitObservation("fan_out", ContextEmpty, kind, data, Ok)
    /\ UNCHANGED <<handler, node, server, running, last_stamped>>

SenderPop ==
  \E r \in {sender_pop(sender)} :
    /\ sender' = r.sender
    /\ obs' = UnitObservation("pop", ContextEmpty, "", r.msg, Ok)
    /\ UNCHANGED <<handler, node, server, running, last_stamped>>

CtxReply ==
  \E ctx \in UnitContexts, kind \in UnitKinds, data \in UnitValues :
    /\ Len(sender.outgoing_msgs) < MaxQueue
    /\ \E r \in {ctx_reply(ctx, sender, kind, data)} :
       /\ sender' = r.sender
       /\ obs' = UnitObservation("reply", ctx, kind, data, r.res)
    /\ UNCHANGED <<handler, node, server, running, last_stamped>>

CtxBroadcast ==
  \E ctx \in UnitContexts, kind \in UnitKinds, data \in UnitValues :
    /\ Len(sender.outgoing_msgs) < MaxQueue
    /\ \E r \in {ctx_broadcast(ctx, sender, kind, data)} :
       /\ sender' = r.sender
       /\ obs' = UnitObservation("broadcast", ctx, kind, data, r.res)
    /\ UNCHANGED <<handler, node, server, running, last_stamped>>

CtxMessageContent ==
  \E ctx \in UnitContexts, T \in UnitShapes :
    /\ obs' = UnitObservation("message_content", ctx, "", T, message_content(ctx, T))
    /\ UNCHANGED <<sender, handler, node, server, running, last_stamped>>

NextUnit ==
  \/ SetNodeIds
  \/ SenderFanOut
  \/ SenderPop
  \/ CtxReply
  \/ CtxBroadcast
  \/ CtxMessageContent

SpecUnit == Init /\ [][NextUnit]_vars

\* ------------------------------------------- payloads of every serialized form
\* reply, broadcast and fan_out of the context with payloads of every form
\* serde_json::to_value can give: two structs, a unit struct (null), a
\* string (neither an object nor null) and a map that has a key named like
\* a field of the message body.
PayloadValues ==
  {<<"EchoMessageContent", "hello">>, <<"TestResponseMessage1", "there">>,
   <<"InitOkMessage">>, <<"String", "oops">>,
   <<"DynamicMap", ("foo" :> JStr("bar")) @@ ("msg_id" :> JStr("oops"))>>}
PayloadKind == "x"

\* The buffer is kept within MaxQueue by the calls that can append to it; a
\* call whose payload does not serialize is made on a buffer of any length.
Serializes(data) == serialize_message_content(data).ok

PayloadReply ==
  \E ctx \in UnitContexts, data \in PayloadValues :
    /\ Len(sender.outgoing_msgs) < MaxQueue \/ ~Serializes(data)
    /\ \E r \in {ctx_reply(ctx, sender, PayloadKind, data)} :
       /\ sender' = r.sender
       /\ obs' = UnitObservation("reply", ctx, PayloadKind, data, r.res)
    /\ UNCHANGED <<handler, node, server, running, last_stamped>>

PayloadBroadcast ==
  \E ctx \in UnitContexts, data \in PayloadValues :
    /\ Len(sender.outgoing_msgs) < MaxQueue \/ ~Serializes(data)
    /\ \E r \in {ctx_broadcast(ctx, sender, PayloadKind, data)} :
       /\ sender' = r.sender
       /\ obs' = UnitObservation("broadcast", ctx, PayloadKind, data, r.res)
    /\ UNCHANGED <<handler, node, server, running, last_stamped>>

PayloadFanOut ==
  \E ctx \in UnitContexts, data \in PayloadValues :
    /\ Len(sender.outgoing_msgs) < MaxQueue \/ ~Serializes(data)
    /\ \E r \in {ctx_fan_out(ctx, sender, PayloadKind, data)} :
       /\ sender' = r.sender
       /\ obs' = UnitObservation("ctx_fan_out", ctx, PayloadKind, data, r.res)
    /\ UNCHANGED <<handler, node, server, running, last_stamped>>

NextPayloads ==
  \/ SetNodeIds
  \/ SenderPop
  \/ PayloadReply
  \/ PayloadBroadcast
  \/ PayloadFanOut

SpecPayloads == Init /\ [][NextPayloads]_vars

\* ------------------------------------------------------- reporting errors
\* error() of the context with errors of every kind, with and without an
\* attached cause.
ErrorCauses == {None, Some("io error"), Some("expected value")}
UnitErrorText == "boom"

CtxError ==
  \E ctx \in UnitContexts, kind \in ErrorKinds, cause \in ErrorCauses :
    /\ Len(sender.outgoing_msgs) < MaxQueue
    /\ \E e \in {[ErrorMessageNew(kind, UnitErrorText) EXCEPT !.source = cause]} :
       \E r \in {ctx_error(ctx, sender, e)} :
         /\ sender' = r.sender
         /\ obs' = UnitObservation("error", ctx, kind, <<"ErrorMessage", e>>, r.res)
    /\ UNCHANGED <<handler, node, server, running, last_stamped>>

NextErrors ==
  \/ CtxError
  \/ SenderPop

SpecErrors == Init /\ [][NextErrors]_vars

\* ------------------------------------------------- the envelope on the wire
\* Lines decoded and encoded again: with and without src and dest; msg_id
\* absent, null, a number or a string; in_reply_to absent or a number; and
\* bodies of the service's kinds and of a kind with payload keys no handler
\* knows (a list, a number, a null), or without a type.
RoundTripBodies ==
  {InitContent("n1", <<"n1", "n2">>),
   ("type" :> JStr("echo")) @@ ("echo" :> JStr("hello")),
   "type" :> JStr("test"),
   ("type" :> JStr("mystery")) @@ ("blob" :> JArr(<<"a", "b">>))
     @@ ("n" :> JNum(0)) @@ ("nothing" :> JNull),
   "echo" :> JStr("hello")}
RoundTripMsgIds == {EmptyMap, "msg_id" :> JNull, "msg_id" :> JNum(7),
                    "msg_id" :> JStr("seven")}
RoundTripReplyTos == {EmptyMap, "in_reply_to" :> JNum(3)}
RoundTripLines ==
  {[syntax |-> "json", src |-> src, dest |-> dest, body |-> id @@ irt @@ c] :
     src \in {None, Some("c1")}, dest \in {None, Some("n1")},
     id \in RoundTripMsgIds, irt \in RoundTripReplyTos, c \in RoundTripBodies}
    \cup {GarbageLine}

\* Decode one line and encode the message again.
RoundTrip ==
  \E line \in RoundTripLines :
    /\ \E d \in {MessageDeserialize(line)} :
         obs' = UnitObservation("round_trip", ContextEmpty, "", line,
                                IF d.ok THEN OkVal(MessageSerialize(d.val)) ELSE d)
    /\ UNCHANGED <<sender, handler, node, server, running, last_stamped>>

NextCodec == RoundTrip

SpecCodec == Init /\ [][NextCodec]_vars

\* ---------------------------------------- envelopes drained after an init
\* The service without handlers, with a buffer that may hold envelopes of
\* several inputs.  obs also keeps, for every buffered envelope, the node id
\* the service had when the envelope was sent (sent_as), and for a drained
\* envelope the one it was sent under (out_sent_as).
DrainLines ==
  {WireLine(Some("c1"), Some("n1"), Some(7), c) :
     c \in {InitContent("n1", <<"n1", "n2">>), InitContent("n2", <<"n3", "n2">>),
            "type" :> JStr("test")}}
    \cup {GarbageLine}

NodeIdOf(n) == IF IsSome(n) THEN Unwrap(n).node_id ELSE None
SentAs == IF "sent_as" \in DOMAIN obs THEN obs.sent_as ELSE <<>>

DrainInput ==
  \E line \in DrainLines :
    /\ Len(sender.outgoing_msgs) <= MaxQueue
    /\ \E r \in {service_input(Service, line)} :
       /\ handler' = r.handler
       /\ sender' = r.sender
       /\ node' = r.node
       /\ last_stamped' =
            IF Len(r.sender.outgoing_msgs) > Len(sender.outgoing_msgs)
              THEN Unwrap(r.sender.outgoing_msgs[Len(r.sender.outgoing_msgs)].body.msg_id)
              ELSE last_stamped
       /\ obs' = [sent_as |-> SentAs \o
                                [i \in 1..(Len(r.sender.outgoing_msgs)
                                             - Len(sender.outgoing_msgs))
                                   |-> NodeIdOf(node)],
                  out_sent_as |-> None]
                   @@ Observation("input", r.msg, r.res, r.invoked, None)
    /\ UNCHANGED <<server, running>>

DrainOutput ==
  \E r \in {service_output(Service)} :
  /\ sender' = r.sender
  /\ obs' = [sent_as |-> IF SentAs = <<>> THEN <<>> ELSE Tail(SentAs),
             out_sent_as |-> IF SentAs = <<>> THEN None ELSE Head(SentAs)]
              @@ Observation("output", None, Ok, <<>>, r.msg)
  /\ UNCHANGED <<handler, node, server, running, last_stamped>>

NextDrain == DrainInput \/ DrainOutput

SpecDrain == Init /\ [][NextDrain]_vars

\* ------------------------------------------------- reading an observation
\* The envelopes the last input appended to the outbound buffer.
Appended ==
  SubSeq(sender.outgoing_msgs, Len(obs.pre_msgs) + 1, Len(sender.outgoing_msgs))

\* The last operation was an input whose line decoded to a message.
DecodedInput == obs.op = "input" /\ IsSome(obs.msg)
InMsg == Unwrap(obs.msg)
InKind == MessageKind(InMsg)

\* The last input was a message that went to the handler registry.
Dispatched == DecodedInput /\ InKind # "init" /\ IsSome(obs.pre_node)
DispatchCtx ==
  with_node_ids(with_message(ContextEmpty, InMsg), Unwrap(obs.pre_node).node_ids)

EnvKind(e) == e.body.content.kind
EnvData(e) == e.body.content.data

\* e is an "error" envelope carrying this code.
IsErrorWithCode(e, code) ==
  /\ EnvKind(e) = "error"
  /\ DOMAIN EnvData(e) = {"code", "text"}
  /\ EnvData(e)["code"] = JNum(code)

\* The fixed fragments of the error texts; a text contains k when it is
\* k between two of them.
TextFragments ==
  {"", "node is not initialized before handling message type ",
   "message type ", " not supported"}
TextContains(text, k) ==
  \E p \in TextFragments, q \in TextFragments : text = p \o k \o q

\* The kind of the one envelope a succeeding handler of this type appends.
ReplyKindOf(T) ==
  CASE T = "SuccessHandler1" -> "hello"
    [] T = "SuccessHandler2" -> "hi"
    [] T = "EchoMessageHandler" -> "echo"
    [] T = "GenerateIdMessageHandler" -> "generate_ok"
    [] OTHER -> ""

IsPrefix(a, b) == Len(a) <= Len(b) /\ a = SubSeq(b, 1, Len(a))

\* ------------------------------------------------------------------ claims
EnvMsgId(e) == Unwrap(e.body.msg_id)

\* C1: across one run, under any interleaving of input() and output(), the
\* msg_id values stamped on outbound envelopes are strictly increasing in
\* send order (hence never assigned twice), starting at 1: every envelope an
\* input appends has an id above the id of the envelope sent before it.
C1_MsgIdsStrictlyIncreasing ==
  obs.op = "input" =>
    \A i \in 1..Len(Appended) :
      /\ IsSome(Appended[i].body.msg_id)
      /\ EnvMsgId(Appended[i]) >
           (IF i = 1 THEN obs.pre_stamped ELSE EnvMsgId(Appended[i - 1]))
      /\ (obs.pre_stamped = 0 /\ i = 1 => EnvMsgId(Appended[i]) = 1)

\* C2: a well-formed "init" from sender s with msg_id m produces exactly one
\* envelope, of kind "init_ok", with dest = s and in_reply_to = m.
C2_InitOkIsAddressedReply ==
  (DecodedInput /\ InKind = "init" /\ obs.res.ok) =>
    /\ Len(Appended) = 1
    /\ EnvKind(Appended[1]) = "init_ok"
    /\ Appended[1].dest = InMsg.src
    /\ Appended[1].body.in_reply_to = InMsg.body.msg_id

\* The text of an "error" envelope.
ErrorText(e) == EnvData(e)["text"][2]

\* C3: while the node is uninitialized, a decoded message whose kind is not
\* "init" invokes no handler and appends exactly one envelope, an "error"
\* with code 22 whose text names the kind.
C3_GateBeforeInit ==
  (DecodedInput /\ InKind # "init" /\ obs.pre_node = None) =>
    /\ obs.invoked = <<>>
    /\ Len(Appended) = 1
    /\ IsErrorWithCode(Appended[1], 22)
    /\ TextContains(ErrorText(Appended[1]), InKind)

\* C3 witness: an "echo" arrives before init although a handler for "echo"
\* is registered, and one envelope results.
C3_Witness ==
  /\ DecodedInput /\ InKind = "echo" /\ obs.pre_node = None
  /\ "echo" \in DOMAIN handler.msg_handlers
  /\ Len(Appended) = 1

\* C4: after a successful "init" with payload {node_id: n, node_ids: P} the
\* node is initialized with local id n and peers P, in P's order, whatever
\* it held before.
C4_InitStoresIdentity ==
  (DecodedInput /\ InKind = "init" /\ obs.res.ok) =>
    /\ IsSome(node)
    /\ Unwrap(node).node_id = Some(EnvData(InMsg)["node_id"][2])
    /\ Unwrap(node).node_ids = EnvData(InMsg)["node_ids"][2]

\* C4 witness: a second successful init has replaced different earlier values.
C4_Witness ==
  /\ DecodedInput /\ InKind = "init" /\ obs.res.ok
  /\ IsSome(obs.pre_node) /\ obs.pre_node # node

\* C5: every operation other than a successful init leaves the node as it
\* was, and an initialized node never becomes uninitialized.
C5_OnlyInitChangesNode ==
  /\ ~(DecodedInput /\ InKind = "init" /\ obs.res.ok) => node = obs.pre_node
  /\ IsSome(obs.pre_node) => IsSome(node)

\* C5 witness: an init with a bad payload has failed on an initialized node.
C5_Witness ==
  /\ DecodedInput /\ InKind = "init" /\ ~obs.res.ok
  /\ IsSome(obs.pre_node) /\ node = obs.pre_node

\* C6: after init, a message whose kind has no registered handler invokes
\* no handler and appends exactly one envelope, an "error" with code 10
\* whose text contains the kind.
C6_UnsupportedKind ==
  (Dispatched /\ InKind \notin DOMAIN handler.msg_handlers) =>
    /\ obs.invoked = <<>>
    /\ Len(Appended) = 1
    /\ IsErrorWithCode(Appended[1], 10)
    /\ TextContains(ErrorText(Appended[1]), InKind)

\* C6 witness: "bogus" is dispatched after init while other handlers exist.
C6_Witness ==
  /\ Dispatched /\ InKind = "bogus" /\ handler.handlers # <<>>
  /\ Len(Appended) = 1

\* The handler indices registered for the dispatched kind, and whether the
\* i-th of them succeeds on the dispatched message.
KindIdxs == handler.msg_handlers[InKind]
HandlerOutcome(i) ==
  receiver_handle(handler.handlers[KindIdxs[i]], DispatchCtx, SenderNew).res
Registered == Dispatched /\ InKind \in DOMAIN handler.msg_handlers

\* e is the reply of a handler of type T to the dispatched message.
IsReplyOf(e, T) ==
  /\ EnvKind(e) = ReplyKindOf(T)
  /\ e.dest = InMsg.src
  /\ e.body.in_reply_to = InMsg.body.msg_id

\* C7: when the dispatched kind has several registered handlers and all of
\* them succeed, each is invoked exactly once, in registration order, on
\* the same inbound message, and their envelopes are buffered in that order.
C7_AllHandlersInOrder ==
  (/\ Registered
   /\ Len(KindIdxs) >= 2
   /\ \A i \in 1..Len(KindIdxs) : HandlerOutcome(i).ok) =>
    /\ obs.res.ok
    /\ obs.invoked = KindIdxs
    /\ \A i \in 1..(Len(KindIdxs) - 1) : KindIdxs[i] < KindIdxs[i + 1]
    /\ Len(Appended) = Len(KindIdxs)
    /\ \A i \in 1..Len(KindIdxs) :
         IsReplyOf(Appended[i], handler.handlers[KindIdxs[i]].type)

\* C7 witness: two handlers of different types have both handled one message.
C7_Witness ==
  /\ Registered /\ obs.res.ok /\ Len(obs.invoked) = 2
  /\ handler.handlers[obs.invoked[1]].type # handler.handlers[obs.invoked[2]].type
  /\ Len(Appended) = 2

\* C8: when a handler of the dispatched kind fails, no handler registered
\* after it for that kind is invoked, and the result of the dispatch is the
\* first failing handler's error (same code, same text).
C8_StopsAtFirstFailure ==
  Registered =>
    \A f \in 1..Len(KindIdxs) :
      (~HandlerOutcome(f).ok /\ \A j \in 1..(f - 1) : HandlerOutcome(j).ok) =>
        /\ obs.invoked = SubSeq(KindIdxs, 1, f)
        /\ ~obs.res.ok
        /\ Unwrap(obs.res.err).code = Unwrap(HandlerOutcome(f).err).code
        /\ Unwrap(obs.res.err).text = Unwrap(HandlerOutcome(f).err).text

\* C8 witness: of two failing handlers with different errors, only the
\* first has been invoked.
C8_Witness ==
  /\ Registered /\ Len(KindIdxs) = 2
  /\ handler.handlers[KindIdxs[1]].type = "FailureHandler1"
  /\ handler.handlers[KindIdxs[2]].type = "FailureHandler2"
  /\ obs.invoked = <<KindIdxs[1]>>
  /\ ~obs.res.ok

\* C9: when a handler fails after earlier handlers of the kind have replied,
\* the buffer keeps what it held, then the earlier handlers' envelopes, then
\* the one error envelope; and output() hands out the buffer's oldest
\* envelope, leaving the rest in place.
C9_EarlierEnvelopesKept ==
  /\ (Registered /\ ~obs.res.ok /\ Len(obs.invoked) >= 2) =>
       /\ IsPrefix(obs.pre_msgs, sender.outgoing_msgs)
       /\ Len(Appended) = Len(obs.invoked)
       /\ \A i \in 1..(Len(obs.invoked) - 1) :
            IsReplyOf(Appended[i], handler.handlers[obs.invoked[i]].type)
       /\ EnvKind(Appended[Len(Appended)]) = "error"
  /\ (obs.op = "output" /\ obs.pre_msgs # <<>>) =>
       /\ IsSome(obs.out)
       /\ [Unwrap(obs.out) EXCEPT !.src = None] = Head(obs.pre_msgs)
       /\ sender.outgoing_msgs = Tail(obs.pre_msgs)

\* C9 witness: output() has delivered a handler's reply while the error
\* envelope of the same dispatch is next in the buffer.
C9_Witness ==
  /\ obs.op = "output" /\ IsSome(obs.out)
  /\ EnvKind(Unwrap(obs.out)) = "hello"
  /\ sender.outgoing_msgs # <<>>
  /\ EnvKind(Head(sender.outgoing_msgs)) = "error"
  /\ EnvMsgId(Head(sender.outgoing_msgs)) = EnvMsgId(Unwrap(obs.out)) + 1

\* C10: when handling a decoded message from sender s with msg_id m ends in
\* an error, exactly one "error" envelope is appended; it is the last one,
\* its dest is s, its in_reply_to is m and it carries the error's code and
\* text.
C10_ErrorReplyAddressed ==
  (DecodedInput /\ ~obs.res.ok) =>
    /\ Len(Appended) >= 1
    /\ Cardinality({i \in 1..Len(Appended) : EnvKind(Appended[i]) = "error"}) = 1
    /\ EnvKind(Appended[Len(Appended)]) = "error"
    /\ Appended[Len(Appended)].dest = InMsg.src
    /\ Appended[Len(Appended)].body.in_reply_to = InMsg.body.msg_id
    /\ EnvData(Appended[Len(Appended)]) =
         ("code" :> JNum(Unwrap(obs.res.err).code))
           @@ ("text" :> JStr(Unwrap(obs.res.err).text))

\* C10 witness: the echo handler has rejected a payload sent by a known
\* sender, and the error reply is in the buffer.
C10_Witness ==
  /\ DecodedInput /\ ~obs.res.ok /\ obs.invoked # <<>>
  /\ InKind = "echo" /\ IsSome(InMsg.src) /\ IsSome(InMsg.body.msg_id)
  /\ Unwrap(obs.res.err).code = 12
  /\ Len(Appended) = 1

\* C11: no error is fatal: after a line that was read from the input and
\* whose handling ended in an error (it could not be decoded, it came before
\* init, its kind is unsupported, the handler failed) main()'s read loop is
\* still alive, so every later line is read and processed.
C11_NoErrorIsFatal ==
  (obs.op = "line" /\ obs.line.syntax # "unreadable" /\ obs.failed) => running

\* The envelopes the last unit operation appended, and whether it left the
\* envelopes already buffered in place.
UnitAppended ==
  SubSeq(sender.outgoing_msgs, Len(obs.pre_sender.outgoing_msgs) + 1,
         Len(sender.outgoing_msgs))
UnitBufferKept == IsPrefix(obs.pre_sender.outgoing_msgs, sender.outgoing_msgs)

\* C12: fan_out on a sender whose peer list is P appends exactly |P|
\* envelopes, the i-th addressed to the i-th peer of P, each without
\* in_reply_to, each with the given kind and the given payload unchanged,
\* and with pairwise distinct msg_ids.
C12_FanOutOnePerPeer ==
  obs.op = "fan_out" =>
    LET P == obs.pre_sender.node_ids IN
    /\ UnitBufferKept
    /\ Len(UnitAppended) = Len(P)
    /\ \A i \in 1..Len(UnitAppended) :
         /\ UnitAppended[i].dest = Some(P[i])
         /\ UnitAppended[i].body.in_reply_to = None
         /\ EnvKind(UnitAppended[i]) = obs.kind
         /\ EnvData(UnitAppended[i]) = obs.data
         /\ IsSome(UnitAppended[i].body.msg_id)
    /\ \A i \in 1..Len(UnitAppended), j \in 1..Len(UnitAppended) :
         i # j => UnitAppended[i].body.msg_id # UnitAppended[j].body.msg_id

\* C12 witness: a fan-out of a non-empty payload to three peers.
C12_Witness ==
  /\ obs.op = "fan_out"
  /\ obs.pre_sender.node_ids = <<"n1", "n2", "n3">>
  /\ obs.data # EmptyMap
  /\ Len(UnitAppended) = 3

\* The typed value is a mapping once serialized.
IsMapping(data) == ToValue(data)[1] = "obj"

\* C14: reply(kind, payload) on a context holding an inbound message, with
\* a payload that is a mapping, appends exactly one envelope: its dest is
\* the inbound src and its in_reply_to the inbound msg_id (null where the
\* inbound one is absent), its kind and payload are the ones given.
C14_ReplyIsAddressed ==
  (obs.op = "reply" /\ IsSome(obs.ctx.msg) /\ IsMapping(obs.data)) =>
    /\ obs.res.ok
    /\ UnitBufferKept
    /\ Len(UnitAppended) = 1
    /\ UnitAppended[1].dest = Unwrap(obs.ctx.msg).src
    /\ UnitAppended[1].body.in_reply_to = Unwrap(obs.ctx.msg).body.msg_id
    /\ EnvKind(UnitAppended[1]) = obs.kind
    /\ EnvData(UnitAppended[1]) = ToValue(obs.data)[2]

\* C14 witness: a reply to a message that has a src but no msg_id.
C14_Witness ==
  /\ obs.op = "reply" /\ IsSome(obs.ctx.msg) /\ IsMapping(obs.data)
  /\ Unwrap(obs.ctx.msg).src = Some("c1")
  /\ Unwrap(obs.ctx.msg).body.msg_id = None
  /\ Len(UnitAppended) = 1
  /\ UnitAppended[1].dest = Some("c1")
  /\ UnitAppended[1].body.in_reply_to = None

\* C15: broadcast(kind, payload), with a payload that is a mapping, appends
\* exactly one envelope with dest = null and in_reply_to = null, whatever
\* the context's inbound message and however many peers the sender knows.
C15_BroadcastIsOneUnaddressed ==
  (obs.op = "broadcast" /\ IsMapping(obs.data)) =>
    /\ obs.res.ok
    /\ UnitBufferKept
    /\ Len(UnitAppended) = 1
    /\ UnitAppended[1].dest = None
    /\ UnitAppended[1].body.in_reply_to = None
    /\ EnvKind(UnitAppended[1]) = obs.kind
    /\ EnvData(UnitAppended[1]) = ToValue(obs.data)[2]

\* C15 witness: a broadcast from a context whose message has src and
\* msg_id, on a sender that knows three peers.
C15_Witness ==
  /\ obs.op = "broadcast" /\ IsMapping(obs.data)
  /\ IsSome(obs.ctx.msg)
  /\ IsSome(Unwrap(obs.ctx.msg).src) /\ IsSome(Unwrap(obs.ctx.msg).body.msg_id)
  /\ Len(obs.pre_sender.node_ids) = 3
  /\ Len(UnitAppended) = 1

\* C13: once the service is initialized with peer list P, a "gossip"
\* request dispatched to registered fan-out handlers (and to no others)
\* makes each of them append one envelope for every member of P, in P's
\* order; P is the list of the latest successful init.
C13_FanOutReachesNodePeers ==
  (/\ Registered /\ InKind = "gossip"
   /\ \A i \in 1..Len(KindIdxs) :
        handler.handlers[KindIdxs[i]].type = "FanOutHandler") =>
    LET P == Unwrap(obs.pre_node).node_ids IN
    /\ obs.res.ok
    /\ Len(Appended) = Len(KindIdxs) * Len(P)
    /\ \A i \in 1..Len(Appended) :
         Appended[i].dest = Some(P[((i - 1) % Len(P)) + 1])

\* C16: the outbound buffer is a FIFO.  output() returns the oldest buffered
\* envelope (src aside, which it stamps) and removes exactly that one, so
\* envelopes leave in the order they were sent and each at most once; on an
\* empty buffer it returns nothing and the buffer stays empty; an input or
\* a registration keeps the buffered envelopes in place and only appends.
C16_BufferIsFifo ==
  /\ (obs.op = "output" /\ obs.pre_msgs # <<>>) =>
       /\ IsSome(obs.out)
       /\ [Unwrap(obs.out) EXCEPT !.src = None] = obs.pre_msgs[1]
       /\ Len(sender.outgoing_msgs) = Len(obs.pre_msgs) - 1
       /\ \A i \in 1..Len(sender.outgoing_msgs) :
            sender.outgoing_msgs[i] = obs.pre_msgs[i + 1]
  /\ (obs.op = "output" /\ obs.pre_msgs = <<>>) =>
       obs.out = None /\ sender.outgoing_msgs = <<>>
  /\ obs.op = "input" => IsPrefix(obs.pre_msgs, sender.outgoing_msgs)
  /\ obs.op = "register" => sender.outgoing_msgs = obs.pre_msgs

\* C16 witness: output() has returned the first of several envelopes of one
\* dispatch, and the later ones are still buffered.
C16_Witness ==
  /\ obs.op = "output" /\ IsSome(obs.out)
  /\ Len(obs.pre_msgs) >= 2
  /\ EnvMsgId(Unwrap(obs.out)) = 1
  /\ EnvMsgId(sender.outgoing_msgs[1]) = 2

\* C17: an envelope output() delivers while the node is initialized carries
\* the node's local id as src; one delivered while it is uninitialized
\* carries src = null.
C17_SrcIsLocalId ==
  (obs.op = "output" /\ IsSome(obs.out)) =>
    IF IsSome(node)
      THEN /\ IsSome(Unwrap(obs.out).src)
           /\ Unwrap(obs.out).src = Unwrap(node).node_id
      ELSE Unwrap(obs.out).src = None

\* C17 witness: a reply addressed to a client is delivered by a node that
\* was initialized as "n2".
C17_Witness ==
  /\ obs.op = "output" /\ IsSome(obs.out)
  /\ IsSome(node) /\ Unwrap(node).node_id = Some("n2")
  /\ Unwrap(obs.out).dest = Some("c1")
  /\ Unwrap(obs.out).src = Some("n2")

\* The texts of the errors Message::deserialize gives for a line.
DecodeFailureTexts ==
  {"expected value at line 1 column 1", "missing field 'type'",
   "invalid type: expected usize"}

\* C18 as stated: an envelope delivered with src = null is the error for a
\* line that could not be decoded, never a response to a decoded message.
C18_NullSrcOnlyForDecodeFailure ==
  (obs.op = "output" /\ IsSome(obs.out) /\ Unwrap(obs.out).src = None) =>
    /\ IsErrorWithCode(Unwrap(obs.out), 12)
    /\ ErrorText(Unwrap(obs.out)) \in DecodeFailureTexts

\* C18 as amended: an envelope is delivered with src = null exactly when
\* the node is still uninitialized at delivery, and such an envelope is
\* always an error: code 12 (a line that could not be decoded, or an init
\* with a bad payload) or code 22 (a decoded message that came before init).
C18_NullSrcOnlyBeforeInit ==
  (obs.op = "output" /\ IsSome(obs.out)) =>
    /\ Unwrap(obs.out).src = None <=> node = None
    /\ Unwrap(obs.out).src = None =>
         \/ IsErrorWithCode(Unwrap(obs.out), 12)
         \/ IsErrorWithCode(Unwrap(obs.out), 22)

\* C18 witness: the code-22 reply to a client's echo that came before init
\* is delivered without src.
C18_Witness ==
  /\ obs.op = "output" /\ IsSome(obs.out)
  /\ Unwrap(obs.out).src = None
  /\ Unwrap(obs.out).dest = Some("c1")
  /\ Unwrap(obs.out).body.in_reply_to = Some(7)
  /\ IsErrorWithCode(Unwrap(obs.out), 22)

\* C19 as stated: message_content on a context without an inbound message
\* fails with MalformedRequest (code 12).
C19_NoMessageIsMalformedRequest ==
  (obs.op = "message_content" /\ obs.ctx.msg = None) =>
    /\ ~obs.res.ok
    /\ Unwrap(obs.res.err).code = 12

\* C19 as amended: message_content on a context without an inbound message
\* fails, whatever shape is asked for, with Crash (code 13) and the text
\* "message not available", and leaves the sender as it was.
C19_NoMessageIsCrash ==
  (obs.op = "message_content" /\ obs.ctx.msg = None) =>
    /\ ~obs.res.ok
    /\ Unwrap(obs.res.err).code = 13
    /\ Unwrap(obs.res.err).text = "message not available"
    /\ sender = obs.pre_sender

\* C19 witness: the payload was asked for, as a shape every payload
\* matches, on a context without a message.
C19_Witness ==
  /\ obs.op = "message_content" /\ obs.ctx.msg = None
  /\ obs.data = "DynamicMap"
  /\ ~obs.res.ok

\* The payload of the context's inbound message.
CtxPayload == Unwrap(obs.ctx.msg).body.content.data

\* C20: message_content on an inbound message whose payload does not have
\* the requested shape fails with MalformedRequest (code 12); when the
\* payload has the shape it returns the decoded value, field by field.
\* Either way the sender's buffer is left as it was.
C20_MessageContentDecodes ==
  (obs.op = "message_content" /\ IsSome(obs.ctx.msg)) =>
    /\ sender = obs.pre_sender
    /\ ~obs.res.ok => Unwrap(obs.res.err).code = 12
    /\ obs.data = "EchoMessageContent" =>
         /\ obs.res.ok <=>
              ("echo" \in DOMAIN CtxPayload /\ CtxPayload["echo"][1] = "str")
         /\ obs.res.ok => obs.res.val.echo = CtxPayload["echo"][2]
    /\ obs.data = "InitMessage" =>
         /\ obs.res.ok <=>
              /\ "node_id" \in DOMAIN CtxPayload /\ CtxPayload["node_id"][1] = "str"
              /\ "node_ids" \in DOMAIN CtxPayload /\ CtxPayload["node_ids"][1] = "arr"
         /\ obs.res.ok =>
              /\ obs.res.val.node_id = CtxPayload["node_id"][2]
              /\ obs.res.val.node_ids = CtxPayload["node_ids"][2]
    /\ obs.data = "DynamicMap" => obs.res.ok /\ obs.res.val = CtxPayload

\* C20 witness: an echo payload whose "echo" is a number was asked for as
\* EchoMessageContent while an envelope was buffered.
C20_Witness ==
  /\ obs.op = "message_content" /\ IsSome(obs.ctx.msg)
  /\ obs.data = "EchoMessageContent"
  /\ "echo" \in DOMAIN CtxPayload /\ CtxPayload["echo"][1] = "num"
  /\ ~obs.res.ok
  /\ sender.outgoing_msgs # <<>>

\* The context operations that serialize a payload, and what the payload
\* serializes to.
IsSendOp == obs.op \in {"reply", "broadcast", "ctx_fan_out"}
ValueTag(data) == ToValue(data)[1]
IsCrash(res) == ~res.ok /\ Unwrap(res.err).code = 13

\* C21 (as stated): reply, broadcast and fan_out fail with Crash (code 13)
\* for every payload that does not serialize to an object, a null or unit
\* value included, and append nothing; a payload that serializes to an
\* object is accepted and every envelope appended carries all its fields.
C21_NonObjectIsCrash ==
  IsSendOp =>
    IF ValueTag(obs.data) = "obj"
      THEN /\ obs.res.ok
           /\ \A i \in 1..Len(UnitAppended) :
                EnvData(UnitAppended[i]) = ToValue(obs.data)[2]
      ELSE IsCrash(obs.res) /\ sender = obs.pre_sender

\* C21 (amended): reply, broadcast and fan_out fail with Crash (code 13),
\* appending nothing, for every payload that serializes to neither an
\* object nor null; a payload that serializes to null is accepted as the
\* empty mapping, and one that serializes to an object is accepted with
\* all its fields.
C21_NonObjectNonNullIsCrash ==
  IsSendOp =>
    CASE ValueTag(obs.data) = "obj" ->
           /\ obs.res.ok
           /\ \A i \in 1..Len(UnitAppended) :
                EnvData(UnitAppended[i]) = ToValue(obs.data)[2]
      [] ValueTag(obs.data) = "null" ->
           /\ obs.res.ok
           /\ \A i \in 1..Len(UnitAppended) :
                EnvData(UnitAppended[i]) = EmptyMap
      [] OTHER -> IsCrash(obs.res) /\ sender = obs.pre_sender

\* C21 witness: a reply with a unit payload appended one envelope with an
\* empty payload.
C21_Witness ==
  /\ obs.op = "reply" /\ ValueTag(obs.data) = "null"
  /\ obs.res.ok
  /\ Len(UnitAppended) = 1
  /\ EnvData(UnitAppended[1]) = EmptyMap

\* The mapping {code, text} of an error.
CodeAndText(e) == ("code" :> JNum(e.code)) @@ ("text" :> JStr(e.text))

\* C22: error(err) appends the same envelope as
\* reply("error", {code: err.code, text: err.text}) and gives the same
\* result; the envelope's payload has the keys code and text only, and the
\* same error with any other attached cause, or with none, would have left
\* the same buffer.
C22_ErrorIsReplyWithoutCause ==
  obs.op = "error" =>
    LET e == obs.data[2] IN
    /\ [res |-> obs.res, sender |-> sender] =
         ctx_reply(obs.ctx, obs.pre_sender, "error", <<"DynamicMap", CodeAndText(e)>>)
    /\ \A i \in 1..Len(UnitAppended) :
         EnvData(UnitAppended[i]) = CodeAndText(e)
    /\ \A c \in ErrorCauses :
         ctx_error(obs.ctx, obs.pre_sender, [e EXCEPT !.source = c]).sender = sender

\* C22 witness: an error with an attached cause was sent, to a context
\* whose message has a sender.
C22_Witness ==
  /\ obs.op = "error"
  /\ IsSome(obs.data[2].source)
  /\ IsSome(obs.ctx.msg) /\ IsSome(Unwrap(obs.ctx.msg).src)
  /\ Len(UnitAppended) = 1
  /\ EnvKind(UnitAppended[1]) = "error"

\* C23: the code of every error kind is the one of the fixed table, no two
\* kinds share a code, and an ErrorMessage built from a kind carries that
\* kind's code.
C23_ErrorCodeTable ==
  /\ [k \in ErrorKinds |-> ErrorCode(k)] =
       ("Timeout" :> 0) @@ ("NodeNotFound" :> 1) @@ ("NotSupported" :> 10)
       @@ ("TemporarilyUnavailable" :> 11) @@ ("MalformedRequest" :> 12)
       @@ ("Crash" :> 13) @@ ("Abort" :> 14) @@ ("KeyDoesNotExist" :> 20)
       @@ ("KeyAlreadyExists" :> 21) @@ ("PreconditionFailed" :> 22)
       @@ ("TxnConflict" :> 30)
  /\ \A k1 \in ErrorKinds, k2 \in ErrorKinds :
       ErrorCode(k1) = ErrorCode(k2) => k1 = k2
  /\ obs.op = "error" =>
       /\ obs.data[2].code = ErrorCode(obs.kind)
       /\ obs.data[2].text = UnitErrorText
       /\ \A i \in 1..Len(UnitAppended) :
            EnvData(UnitAppended[i])["code"] = JNum(ErrorCode(obs.kind))

\* C23 witness: an error built from the kind Abort was sent with code 14.
C23_Witness ==
  /\ obs.op = "error" /\ obs.kind = "Abort"
  /\ obs.data[2].code = 14
  /\ Len(UnitAppended) = 1
  /\ EnvData(UnitAppended[1])["code"] = JNum(14)

\* C24: after init, an "echo" message with payload {echo: v} and msg_id m
\* from sender s, dispatched to the one registered echo handler, yields
\* exactly one outbound envelope: of kind "echo_ok", with payload {echo: v},
\* dest s and in_reply_to m.
C24_EchoYieldsEchoOk ==
  (/\ Registered /\ InKind = "echo"
   /\ Len(KindIdxs) = 1
   /\ ShapeMatches("EchoMessageContent", InMsg.body.content.data)) =>
    /\ Len(Appended) = 1
    /\ EnvKind(Appended[1]) = "echo_ok"
    /\ EnvData(Appended[1]) = InMsg.body.content.data
    /\ Appended[1].dest = InMsg.src
    /\ Appended[1].body.in_reply_to = InMsg.body.msg_id

\* C25: with one GenerateIdMessageHandler registered, once the node has
\* been initialized by an "init" whose node_id is n followed by digits,
\* every "generate" request is answered with exactly one "generate_ok"
\* reply addressed to the requester, with in_reply_to equal to the
\* request's msg_id.
C25_GenerateAnsweredAfterInit ==
  (/\ Registered /\ InKind = "generate"
   /\ Len(KindIdxs) = 1
   /\ IsSome(Unwrap(obs.pre_node).node_id)
   /\ Unwrap(Unwrap(obs.pre_node).node_id) \in {"n1", "n2"}) =>
    /\ Len(Appended) = 1
    /\ EnvKind(Appended[1]) = "generate_ok"
    /\ Appended[1].dest = InMsg.src
    /\ Appended[1].body.in_reply_to = InMsg.body.msg_id

\* C26: in every buffered outbound envelope the payload mapping contains
\* none of the reserved keys msg_id, in_reply_to and type, whatever payload
\* was passed to reply, broadcast or fan_out.
C26_NoReservedPayloadKeys ==
  \A i \in 1..Len(sender.outgoing_msgs) :
    DOMAIN EnvData(sender.outgoing_msgs[i]) \cap ReservedBodyKeys = {}

\* A body field that is absent reads as null.
BodyField(body, k) == IF k \in DOMAIN body THEN body[k] ELSE JNull

\* C27: a line that decodes is encoded again with the same src, dest,
\* msg_id, in_reply_to and type and with every payload key and its value,
\* the keys no handler knows included, and with no other payload key; the
\* encoded line decodes to the same message.
C27_DecodeEncodeRoundTrip ==
  (obs.op = "round_trip" /\ obs.res.ok) =>
    LET line == obs.data
        out == obs.res.val IN
    /\ out.src = line.src
    /\ out.dest = line.dest
    /\ \A k \in ReservedBodyKeys : BodyField(out.body, k) = BodyField(line.body, k)
    /\ DOMAIN out.body \ ReservedBodyKeys = DOMAIN line.body \ ReservedBodyKeys
    /\ \A k \in DOMAIN line.body \ ReservedBodyKeys : out.body[k] = line.body[k]
    /\ MessageDeserialize(out) = MessageDeserialize(line)

\* C27 witness: a line with in_reply_to and three payload keys no handler
\* knows was decoded and encoded again.
C27_Witness ==
  /\ obs.op = "round_trip" /\ obs.res.ok
  /\ {"blob", "n", "nothing", "in_reply_to"} \subseteq DOMAIN obs.data.body
  /\ obs.res.val.body["in_reply_to"] = JNum(3)
  /\ obs.res.val.body["blob"] = JArr(<<"a", "b">>)

\* The message the last line of main() decoded to.
MainDecoded == obs.op = "line" /\ MainDeserialize(obs.line).ok
MainMsg == MainDeserialize(obs.line).val
MainPrinted == Unwrap(obs.printed)

\* C28: MaelstromServer answers an Init{node_id: n} from sender s with
\* msg_id m by exactly one InitOk envelope with src = n, dest = s and
\* in_reply_to = m.  The counter starts at 1, every envelope the server
\* creates carries the counter's value plus one and leaves the counter at
\* that value, and nothing else moves the counter: the k-th envelope
\* carries msg_id k + 1 (the first 2), so the msg_ids strictly increase.
C28_ServerInitOkAndMsgIds ==
  /\ obs.op = "new" => server.last_msg_id = 1
  /\ obs.op = "line" =>
       IF IsSome(obs.printed)
         THEN /\ MainPrinted.msg_id = Some(obs.pre_server.last_msg_id + 1)
              /\ server.last_msg_id = obs.pre_server.last_msg_id + 1
              /\ MainPrinted.msg_id[1] >= 2
         ELSE server.last_msg_id = obs.pre_server.last_msg_id
  /\ (MainDecoded /\ MainMsg.content[1] = "Init") =>
       /\ IsSome(obs.printed)
       /\ MainPrinted.content = <<"InitOk">>
       /\ MainPrinted.src = MainMsg.content[2]
       /\ MainPrinted.dest = MainMsg.src
       /\ MainPrinted.in_reply_to = MainMsg.msg_id

\* C28 witness: a second init, to a server that had already created an
\* envelope, was answered by an InitOk with the new node id as src.
C28_Witness ==
  /\ MainDecoded /\ MainMsg.content[1] = "Init"
  /\ obs.pre_server.last_msg_id > 1
  /\ obs.pre_server.node_id # Some(MainMsg.content[2])
  /\ IsSome(obs.printed)
  /\ MainPrinted.content = <<"InitOk">>
  /\ MainPrinted.msg_id = Some(obs.pre_server.last_msg_id + 1)

\* C29: once MaelstromServer is initialized with node id n, a Custom
\* message from sender s with msg_id m for which the handler returns a
\* response yields exactly one envelope carrying that response with
\* src = n, dest = s and in_reply_to = m; when the handler returns no
\* response, or the inbound message is a system InitOk or Error, no
\* envelope is produced and the msg-id counter is not advanced.
C29_ServerCustomMessages ==
  (MainDecoded /\ IsSome(obs.pre_server.node_id)) =>
    LET response == EchoInnerHandle(MainMsg.content) IN
    CASE MainMsg.content[1] \in {"Echo", "EchoOk"} /\ IsSome(response.val) ->
           /\ IsSome(obs.printed)
           /\ MainPrinted.content = Unwrap(response.val)
           /\ MainPrinted.src = Unwrap(obs.pre_server.node_id)
           /\ MainPrinted.dest = MainMsg.src
           /\ MainPrinted.in_reply_to = MainMsg.msg_id
      [] MainMsg.content[1] \in {"Echo", "EchoOk", "InitOk", "Error"} ->
           /\ obs.printed = None
           /\ server.last_msg_id = obs.pre_server.last_msg_id
      [] OTHER -> TRUE

\* C29 witness: an initialized server has answered an echo with msg_id 7.
C29_Witness ==
  /\ MainDecoded /\ IsSome(obs.pre_server.node_id)
  /\ MainMsg.content[1] = "Echo"
  /\ IsSome(obs.printed)
  /\ MainPrinted.content = <<"EchoOk", "hello">>
  /\ MainPrinted.in_reply_to = Some(7)

\* The kinds a handler type declares, and the types of a handler sequence.
DeclaredKinds(T) ==
  {get_handled_messages(T)[i] : i \in 1..Len(get_handled_messages(T))}
HandlerTypesOf(handlers) == [i \in 1..Len(handlers) |-> handlers[i].type]
IndicesOf(msg_handlers, k) ==
  IF k \in DOMAIN msg_handlers THEN msg_handlers[k] ELSE <<>>

\* C30: a registration appends one new handler instance to the handler
\* sequence, leaving the instances before it as they were, and appends that
\* instance's index to the index list of every kind it declares, after the
\* indices already there; the lists of the other kinds stay as they were.
\* Every other step (an input dispatched or not, an output) leaves the
\* kind-to-indices mapping and the sequence of handlers unchanged.
C30_RegistryOnlyAppends ==
  [][IF obs'.op = "register"
       THEN LET idx == Len(handler.handlers) + 1
                T == handler'.handlers[idx].type IN
            /\ Len(handler'.handlers) = idx
            /\ SubSeq(handler'.handlers, 1, idx - 1) = handler.handlers
            /\ handler'.handlers[idx] = receiver_new(T)
            /\ DOMAIN handler'.msg_handlers =
                 DOMAIN handler.msg_handlers \cup DeclaredKinds(T)
            /\ \A k \in DOMAIN handler'.msg_handlers :
                 handler'.msg_handlers[k] =
                   IF k \in DeclaredKinds(T)
                     THEN Append(IndicesOf(handler.msg_handlers, k), idx)
                     ELSE handler.msg_handlers[k]
       ELSE /\ handler'.msg_handlers = handler.msg_handlers
            /\ HandlerTypesOf(handler'.handlers) = HandlerTypesOf(handler.handlers)
    ]_vars

\* C30 witness: a handler that declares two kinds was registered second,
\* after a handler of one of its kinds, and a message has been dispatched.
C30_Witness ==
  /\ Dispatched /\ obs.invoked # <<>>
  /\ Len(handler.handlers) = 2
  /\ "generate" \in DOMAIN handler.msg_handlers
  /\ handler.msg_handlers["generate"] = <<1, 2>>
  /\ handler.msg_handlers["init"] = <<1, 2>>

\* C31: an inbound line that cannot be decoded as an envelope invokes no
\* handler, leaves the node as it was, and appends exactly one envelope: an
\* "error" with code 12 (MalformedRequest) whose dest and in_reply_to are
\* both null.
C31_UndecodableLine ==
  (obs.op = "input" /\ ~IsSome(obs.msg)) =>
    /\ obs.invoked = <<>>
    /\ node = obs.pre_node
    /\ IsPrefix(obs.pre_msgs, sender.outgoing_msgs)
    /\ Len(Appended) = 1
    /\ IsErrorWithCode(Appended[1], 12)
    /\ Appended[1].dest = None
    /\ Appended[1].body.in_reply_to = None

\* C31 witness: a line that does not decode arrived at an initialized node
\* with a registered handler, and one error with code 12 was appended.
C31_Witness ==
  /\ obs.op = "input" /\ ~IsSome(obs.msg)
  /\ IsSome(obs.pre_node)
  /\ handler.handlers # <<>>
  /\ Len(Appended) = 1
  /\ IsErrorWithCode(Appended[1], 12)

\* C32: an "init" whose payload lacks a valid node_id / node_ids leaves the
\* node exactly as it was, appends no init_ok, and appends exactly one
\* envelope: an "error" with code 12 addressed to the init's sender, with
\* in_reply_to the init's msg_id.
C32_BadInitPayload ==
  (/\ DecodedInput /\ InKind = "init"
   /\ ~ShapeMatches("InitMessage", EnvData(InMsg))) =>
    /\ node = obs.pre_node
    /\ IsPrefix(obs.pre_msgs, sender.outgoing_msgs)
    /\ \A i \in 1..Len(Appended) : EnvKind(Appended[i]) # "init_ok"
    /\ Len(Appended) = 1
    /\ IsErrorWithCode(Appended[1], 12)
    /\ Appended[1].dest = InMsg.src
    /\ Appended[1].body.in_reply_to = InMsg.body.msg_id

\* C32 witness: an init without node_ids arrived at a node that was already
\* initialized, which kept its id and peers; the error went to the sender.
C32_Witness ==
  /\ DecodedInput /\ InKind = "init"
  /\ ~ShapeMatches("InitMessage", EnvData(InMsg))
  /\ IsSome(obs.pre_node) /\ node = obs.pre_node
  /\ Len(Appended) = 1
  /\ Appended[1].dest = Some("c1")
  /\ IsErrorWithCode(Appended[1], 12)

\* C33: an inbound message of kind "init" is consumed by the node lifecycle
\* and never passed to the handler registry: whatever is registered for
\* "init", no handler is invoked for it, in any state of the node, and no
\* handler has ever run its own init handling.
C33_InitNeverDispatched ==
  /\ (DecodedInput /\ InKind = "init") => obs.invoked = <<>>
  /\ \A i \in 1..Len(handler.handlers) : handler.handlers[i].node_id = None

\* C33 witness: an init arrived at an initialized node while a handler was
\* registered for kind "init", and was accepted.
C33_Witness ==
  /\ DecodedInput /\ InKind = "init" /\ obs.res.ok
  /\ IsSome(obs.pre_node)
  /\ "init" \in DOMAIN handler.msg_handlers
  /\ obs.invoked = <<>>

\* C34: the msg_id the sender gives an envelope is the number of envelopes
\* in the outbound buffer at that moment plus one: the i-th envelope an
\* input appends has msg_id (buffer length before the input) + i, so with
\* an empty buffer at the start of a dispatch the envelopes sent in it are
\* numbered 1, 2, 3, ...
C34_MsgIdIsBufferLengthPlusOne ==
  obs.op = "input" =>
    /\ IsPrefix(obs.pre_msgs, sender.outgoing_msgs)
    /\ \A i \in 1..Len(Appended) :
         Appended[i].body.msg_id = Some(Len(obs.pre_msgs) + i)

\* C34 witness: a dispatch that started on an empty buffer, after an earlier
\* envelope had already been given msg_id 1 and drained, sent two envelopes
\* numbered 1 and 2.
C34_Witness ==
  /\ Dispatched /\ obs.pre_msgs = <<>>
  /\ obs.pre_stamped >= 1
  /\ Len(Appended) = 2
  /\ Appended[1].body.msg_id = Some(1)
  /\ Appended[2].body.msg_id = Some(2)

\* C35: the src of a delivered envelope is the node id at the time output()
\* is called, not the one at the time the envelope was sent: an envelope
\* buffered before an init or a re-init and drained after it carries the
\* node id set by that init (and an envelope drained while the node is
\* still uninitialized carries none).
C35_SrcTakenAtOutput ==
  (obs.op = "output" /\ IsSome(obs.out)) =>
    /\ Len(SentAs) = Len(sender.outgoing_msgs)
    /\ Unwrap(obs.out).src = NodeIdOf(node)
    /\ obs.out_sent_as # NodeIdOf(node) => Unwrap(obs.out).src # obs.out_sent_as

\* C35 witness: an error reply sent while the node was "n1" is drained
\* after a re-init to "n2" and carries src "n2".
C35_Witness ==
  /\ obs.op = "output" /\ IsSome(obs.out)
  /\ EnvKind(Unwrap(obs.out)) = "error"
  /\ obs.out_sent_as = Some("n1")
  /\ NodeIdOf(node) = Some("n2")
  /\ Unwrap(obs.out).src = Some("n2")

\* C36: when reply, broadcast or fan_out fails because the payload does not
\* serialize to a mapping, nothing is appended to the outbound buffer and
\* no msg_id is consumed: the sender after the failed call is the sender
\* before it, and the next envelope sent would get the same msg_id.
C36_FailedSendLeavesBuffer ==
  (IsSendOp /\ ~obs.res.ok) =>
    /\ sender.outgoing_msgs = obs.pre_sender.outgoing_msgs
    /\ sender.node_ids = obs.pre_sender.node_ids
    /\ sender_send(sender, "x", EmptyMap, None, None)
         = sender_send(obs.pre_sender, "x", EmptyMap, None, None)

\* C36 witness: a reply with a string payload failed on a sender whose
\* buffer already held an envelope.
C36_Witness ==
  /\ obs.op = "reply" /\ ~obs.res.ok
  /\ ValueTag(obs.data) = "str"
  /\ obs.pre_sender.outgoing_msgs # <<>>
  /\ sender = obs.pre_sender

\* The last call of handle was for a Custom message (of the handler's own
\* kinds).
CustomHandled == obs.op = "handle" /\ obs.msg.content[1] \in {"Echo", "EchoOk"}

\* C37: handle on a Custom message while no Init has been received returns
\* an error, does not invoke the inner handler, produces no envelope, and
\* leaves node_id and the msg-id counter unchanged.
C37_CustomBeforeInit ==
  (CustomHandled /\ ~IsSome(obs.pre_server.node_id)) =>
    /\ ~obs.res.ok
    /\ obs.res.val = None
    /\ obs.inner = "none"
    /\ server = obs.pre_server
    /\ server = server_new

\* C37 witness: an echo reached a server that had seen no Init.
C37_Witness ==
  /\ CustomHandled /\ obs.msg.content[1] = "Echo"
  /\ obs.pre_server = server_new
  /\ obs.res = ErrVal("node ID not set")

\* C38: when the inner handler's init fails while an Init is processed,
\* handle returns an error, produces no InitOk and does not advance the
\* msg-id counter, but node_id is already the new id; so a Custom message
\* received afterwards passes the initialization check and reaches the
\* inner handler.
C38_FailedInitSetsNodeId ==
  /\ (obs.op = "handle" /\ obs.msg.content[1] = "Init" /\ ~obs.init_ok) =>
       /\ ~obs.res.ok
       /\ obs.res.val = None
       /\ obs.inner = "init"
       /\ server.last_msg_id = obs.pre_server.last_msg_id
       /\ server.node_id = Some(obs.msg.content[2])
  /\ (CustomHandled /\ IsSome(obs.pre_server.node_id)) => obs.inner = "handle"

\* C38 witness: an echo was answered by a server that has never created an
\* envelope before (every Init it received failed in the handler), under
\* the node id of a failed Init.
C38_Witness ==
  /\ CustomHandled /\ obs.msg.content[1] = "Echo"
  /\ obs.pre_server.last_msg_id = 1
  /\ obs.pre_server.node_id = Some("n2")
  /\ obs.res.ok /\ IsSome(obs.res.val)
  /\ Unwrap(obs.res.val).src = "n2"
  /\ Unwrap(obs.res.val).msg_id = Some(2)

====
